---- MODULE Spec2Model ----
(***************************************************************************)
(* Flight price recommendation engine: the seasonal recommendation model,  *)
(* the enhanced model, the multi-source price aggregator, the historical   *)
(* data collector / backtester / validator.                                *)
(*                                                                         *)
(* Number representation (JavaScript doubles are modelled in fixed point): *)
(*   prices                    whole currency units                        *)
(*   Math.random() draws       thousandths, 0..999  (0.625 is 625)         *)
(*   priceVariation            hundredths           (0.15 is 15)           *)
(*   probabilities, unrounded  millionths           (0.5 is 500000)        *)
(*   probabilities, returned   hundredths           (0.51 is 51)           *)
(*   simple confidence, raw    ten-thousandths      (0.8 is 8000)          *)
(*   confidence, returned      hundredths of a point (95 is 9500, 0.98 is  *)
(*                             98)                                         *)
(* A quotient n/d that the code keeps as a double is kept as the pair      *)
(* [num |-> n, den |-> d] and compared by cross-multiplication.            *)
(***************************************************************************)
EXTENDS Integers, Sequences, FiniteSets, TLC

VARIABLES
  predIn,        \* arguments and environment of one prediction call
  predOut,       \* the PricePrediction it returned
  predAgain,     \* the same call repeated at another current price, and its result
  enhancedData,  \* EnhancedPredictionService.historicalData (static)
  aggIn,         \* arguments and environment of one getAverageFlightPrices call
  aggOut,        \* what the call returned
  aggAgain,      \* what the same call returned when it was made a second time
  clock,         \* new Date(), in hours
  hasWindow,     \* typeof window !== 'undefined': localStorage is there
  storage,       \* localStorage, by key
  validationCache,     \* StatisticalValidator.validationCache
  lastValidationTime,  \* StatisticalValidator.lastValidationTime
  call,          \* the last call made to the validation subsystem and its outcome,
                 \* or its calls in flight
  firstVariant,  \* per user id, what the first assignUserToVariant call returned
  timers,        \* the outcome checks scheduled by setTimeout and not yet run
  http           \* one request to the validated-search endpoint and its handling

predVars == << predIn, predOut, predAgain, enhancedData >>
aggVars == << aggIn, aggOut, aggAgain >>
valVars == << clock, hasWindow, storage, validationCache, lastValidationTime, call >>
abVars == << firstVariant, timers >>
httpVars == << http >>
vars == << predVars, aggVars, valVars, abVars, httpVars >>

\* No call made yet, nothing returned yet.
NoCall == [model |-> "none"]
NoPrediction == [returned |-> FALSE]
NotLoaded == [loaded |-> FALSE]
NoResult == [returned |-> FALSE]

\* The subsystems a specification does not exercise stay as constructed.
PredIdle ==
  predIn = NoCall /\ predOut = NoPrediction /\ predAgain = NoPrediction
    /\ enhancedData = NotLoaded
AggIdle == aggIn = NoCall /\ aggOut = NoResult /\ aggAgain = NoResult
AbIdle == firstVariant = << >> /\ timers = << >>
HttpIdle == http = [pc |-> "none"]

\* null, and a value that is not null
Null == [isNull |-> TRUE]
Some(v) == [isNull |-> FALSE, value |-> v]

\* localStorage with none of the keys written.
EmptyStorage ==
  [historical |-> Null, backtest |-> Null, validation |-> Null,
   userVariants |-> Null, abTests |-> Null]

ValIdle ==
  /\ clock = 0
  /\ hasWindow = FALSE
  /\ storage = EmptyStorage
  /\ validationCache = Null
  /\ lastValidationTime = Null
  /\ call = [op |-> "none"]

(***************************************************************************)
(* Arithmetic helpers                                                      *)
(***************************************************************************)
Max(a, b) == IF a >= b THEN a ELSE b
Min(a, b) == IF a <= b THEN a ELSE b

\* Math.round(n/d) for d > 0: the nearest integer, a tie going up.
MathRound(n, d) == (2 * n + d) \div (2 * d)

\* A double quotient num/den; den = 0 gives +Infinity, -Infinity or NaN.
Quot(n, d) == [num |-> n, den |-> d]
\* q < a/b and q > a/b (b > 0) as IEEE comparisons: every comparison with NaN is false.
QuotLT(q, a, b) ==
  IF q.den > 0 THEN q.num * b < a * q.den
  ELSE IF q.den < 0 THEN q.num * b > a * q.den
  ELSE q.num < 0
QuotGT(q, a, b) ==
  IF q.den > 0 THEN q.num * b > a * q.den
  ELSE IF q.den < 0 THEN q.num * b < a * q.den
  ELSE q.num > 0

(***************************************************************************)
(* The 95% interval of a rate of s in n, n > 0, in hundredths of a percent.*)
(* Math.sqrt is taken exactly.  With c = 39200 = 2 * 1.96 * 10000 and      *)
(* t = c * sqrt(s * (n - s) / n), a bound                                  *)
(* Math.round((s / n -+ 1.96 * sqrt((s / n) * (1 - s / n) / n)) * 10000)   *)
(* is the largest integer k with 2 * k * n <= 20000 * s + n -+ t, so it is *)
(* given by the integer part of t.  All products stay within 32 bits.      *)
(***************************************************************************)
\* 1.96, the 95% quantile of the margin of error, in hundredths
Z95 == 196

\* the sign of c * c * s * (n - s) - n * x * x, for x >= 0: with x = c * y + z
\* this is c * g - n * z * z for g = (s * (n - s) - n * y * y) * c - 2 * n * y * z
MarginCmp(s, n, x) ==
  LET c == 200 * Z95
      remainder(g, z) ==
        IF g <= 0 THEN (IF g = 0 /\ z = 0 THEN 0 ELSE -1)
        ELSE IF g \div n > (z * z) \div c THEN 1
        ELSE IF g \div n < (z * z) \div c THEN -1
        ELSE IF c * (g % n) > n * ((z * z) % c) THEN 1
        ELSE IF c * (g % n) < n * ((z * z) % c) THEN -1
        ELSE 0
      split(y, z) == remainder((s * (n - s) - n * y * y) * c - 2 * n * y * z, z)
  IN  split(x \div c, x % c)

RECURSIVE MarginFloor(_, _, _, _)
\* the integer part of t: the largest x in lo..hi with n * x * x <= c * c * s * (n - s)
MarginFloor(lo, hi, s, n) ==
  IF lo >= hi THEN lo
  ELSE IF MarginCmp(s, n, (lo + hi + 1) \div 2) >= 0
       THEN MarginFloor((lo + hi + 1) \div 2, hi, s, n)
       ELSE MarginFloor(lo, (lo + hi + 1) \div 2 - 1, s, n)

\* both bounds before clamping; t < c * w for any w with 4 * w * w > n
RateBounds(s, n) ==
  LET w == CHOOSE v \in 1..n : 4 * v * v > n /\ (v = 1 \/ 4 * (v - 1) * (v - 1) <= n)
      bounds(f, exact) ==
        [lower |-> (20000 * s + n - (IF exact THEN f ELSE f + 1)) \div (2 * n),
         upper |-> (20000 * s + n + f) \div (2 * n)]
      rooted(f) == bounds(f, MarginCmp(s, n, f) = 0)
  IN  rooted(MarginFloor(0, 200 * Z95 * w, s, n))

(***************************************************************************)
(* Seasonal reference table (PricePredictionService.HISTORICAL_DATA)       *)
(***************************************************************************)
RA(route, month, averagePrice, minPrice, maxPrice, priceVariation) ==
  [route |-> route, month |-> month, averagePrice |-> averagePrice,
   minPrice |-> minPrice, maxPrice |-> maxPrice, priceVariation |-> priceVariation]

KnownRoutes == {"LHR-KUL", "LHR-JFK", "DXB-LHR", "LAX-HND", "SFO-NRT", "JFK-CDG"}

HISTORICAL_DATA(r) ==
  CASE
    r = "LHR-KUL" ->
    << RA("LHR-KUL", 1, 650, 580, 720, 15),
       RA("LHR-KUL", 2, 620, 550, 690, 18),
       RA("LHR-KUL", 3, 680, 610, 750, 16),
       RA("LHR-KUL", 4, 720, 650, 790, 14),
       RA("LHR-KUL", 5, 750, 680, 820, 13),
       RA("LHR-KUL", 6, 820, 750, 890, 12),
       RA("LHR-KUL", 7, 880, 810, 950, 11),
       RA("LHR-KUL", 8, 860, 790, 930, 12),
       RA("LHR-KUL", 9, 720, 650, 790, 14),
       RA("LHR-KUL", 10, 680, 610, 750, 16),
       RA("LHR-KUL", 11, 740, 670, 810, 13),
       RA("LHR-KUL", 12, 820, 750, 890, 12) >>
    []  r = "LHR-JFK" ->
    << RA("LHR-JFK", 1, 420, 350, 490, 20),
       RA("LHR-JFK", 2, 380, 320, 440, 22),
       RA("LHR-JFK", 3, 450, 380, 520, 18),
       RA("LHR-JFK", 4, 520, 450, 590, 16),
       RA("LHR-JFK", 5, 580, 510, 650, 15),
       RA("LHR-JFK", 6, 680, 610, 750, 12),
       RA("LHR-JFK", 7, 750, 680, 820, 11),
       RA("LHR-JFK", 8, 720, 650, 790, 12),
       RA("LHR-JFK", 9, 520, 450, 590, 16),
       RA("LHR-JFK", 10, 480, 410, 550, 17),
       RA("LHR-JFK", 11, 450, 380, 520, 18),
       RA("LHR-JFK", 12, 520, 450, 590, 16) >>
    []  r = "DXB-LHR" ->
    << RA("DXB-LHR", 1, 480, 420, 540, 18),
       RA("DXB-LHR", 2, 450, 390, 510, 20),
       RA("DXB-LHR", 3, 520, 460, 580, 16),
       RA("DXB-LHR", 4, 580, 520, 640, 14),
       RA("DXB-LHR", 5, 620, 560, 680, 13),
       RA("DXB-LHR", 6, 680, 620, 740, 12),
       RA("DXB-LHR", 7, 750, 690, 810, 11),
       RA("DXB-LHR", 8, 720, 660, 780, 12),
       RA("DXB-LHR", 9, 580, 520, 640, 14),
       RA("DXB-LHR", 10, 540, 480, 600, 16),
       RA("DXB-LHR", 11, 520, 460, 580, 16),
       RA("DXB-LHR", 12, 580, 520, 640, 14) >>
    []  r = "LAX-HND" ->
    << RA("LAX-HND", 1, 850, 750, 950, 16),
       RA("LAX-HND", 2, 820, 720, 920, 18),
       RA("LAX-HND", 3, 900, 800, 1000, 15),
       RA("LAX-HND", 4, 950, 850, 1050, 14),
       RA("LAX-HND", 5, 1000, 900, 1100, 13),
       RA("LAX-HND", 6, 1100, 1000, 1200, 12),
       RA("LAX-HND", 7, 1200, 1100, 1300, 11),
       RA("LAX-HND", 8, 1150, 1050, 1250, 12),
       RA("LAX-HND", 9, 950, 850, 1050, 14),
       RA("LAX-HND", 10, 900, 800, 1000, 15),
       RA("LAX-HND", 11, 850, 750, 950, 16),
       RA("LAX-HND", 12, 950, 850, 1050, 14) >>
    []  r = "SFO-NRT" ->
    << RA("SFO-NRT", 1, 780, 680, 880, 17),
       RA("SFO-NRT", 2, 750, 650, 850, 19),
       RA("SFO-NRT", 3, 820, 720, 920, 16),
       RA("SFO-NRT", 4, 880, 780, 980, 15),
       RA("SFO-NRT", 5, 920, 820, 1020, 14),
       RA("SFO-NRT", 6, 1000, 900, 1100, 13),
       RA("SFO-NRT", 7, 1100, 1000, 1200, 12),
       RA("SFO-NRT", 8, 1050, 950, 1150, 13),
       RA("SFO-NRT", 9, 880, 780, 980, 15),
       RA("SFO-NRT", 10, 820, 720, 920, 16),
       RA("SFO-NRT", 11, 780, 680, 880, 17),
       RA("SFO-NRT", 12, 880, 780, 980, 15) >>
    []  r = "JFK-CDG" ->
    << RA("JFK-CDG", 1, 420, 360, 480, 19),
       RA("JFK-CDG", 2, 390, 330, 450, 21),
       RA("JFK-CDG", 3, 460, 400, 520, 17),
       RA("JFK-CDG", 4, 520, 460, 580, 15),
       RA("JFK-CDG", 5, 580, 520, 640, 14),
       RA("JFK-CDG", 6, 680, 620, 740, 12),
       RA("JFK-CDG", 7, 750, 690, 810, 11),
       RA("JFK-CDG", 8, 720, 660, 780, 12),
       RA("JFK-CDG", 9, 520, 460, 580, 15),
       RA("JFK-CDG", 10, 480, 420, 540, 17),
       RA("JFK-CDG", 11, 460, 400, 520, 17),
       RA("JFK-CDG", 12, 520, 460, 580, 15) >>

\* Generic seasonal pattern for unknown routes: 12 multipliers (hundredths) on 400.
seasonalMultipliers == << 80, 75, 90, 100, 110, 130, 140, 135, 100, 90, 85, 110 >>

\* Mutant: the factors of minPrice and maxPrice swapped.
getGenericHistoricalData_Swapped ==
  [i \in 1..12 |->
     RA("GENERIC", i,
        MathRound(400 * seasonalMultipliers[i], 100),
        MathRound(400 * seasonalMultipliers[i] * 12, 1000),
        MathRound(400 * seasonalMultipliers[i] * 8, 1000),
        15)]

getGenericHistoricalData ==
  [i \in 1..12 |->
     RA("GENERIC", i,
        MathRound(400 * seasonalMultipliers[i], 100),
        MathRound(400 * seasonalMultipliers[i] * 8, 1000),
        MathRound(400 * seasonalMultipliers[i] * 12, 1000),
        15)]

\* historicalData.find(data => data.month === month) || historicalData[0]
\* (month 0 stands for the NaN month of an invalid date: nothing matches it).
FindMonthOrFirst(historicalData, month) ==
  IF \E i \in 1..Len(historicalData) : historicalData[i].month = month
  THEN historicalData[CHOOSE i \in 1..Len(historicalData) :
                        /\ historicalData[i].month = month
                        /\ \A j \in 1..(i - 1) : historicalData[j].month # month]
  ELSE historicalData[1]

\* this.HISTORICAL_DATA[route] || this.getGenericHistoricalData(month)
RouteData(route) ==
  IF route \in KnownRoutes THEN HISTORICAL_DATA(route) ELSE getGenericHistoricalData

(***************************************************************************)
(* Simple recommendation model (PricePredictionService)                    *)
(*                                                                         *)
(* A departure date is [valid, month, days]: month is getMonth() + 1 and   *)
(* days is Math.ceil((departure - now) / 1 day); an unparsable date has    *)
(* valid = FALSE, a NaN month (0 here) and NaN days.                       *)
(* "now" is [month, day]: the calendar month and day of month of new Date()*)
(***************************************************************************)
WEEKS == 4

\* (currentPrice - minPrice) / (maxPrice - minPrice)
PricePosition(currentPrice, monthData) ==
  Quot(currentPrice - monthData.minPrice, monthData.maxPrice - monthData.minPrice)

\* Mutant: the base probability of the upper and the middle range swapped.
RawProbabilityIncrease_MiddleLowest(monthData, pricePosition, departureDate, rnd) ==
  LET base == IF QuotLT(pricePosition, 3, 10) THEN 750000
              ELSE IF QuotGT(pricePosition, 7, 10) THEN 500000
              ELSE 250000
      window == IF departureDate.valid /\ departureDate.days < 14 THEN 200000
                ELSE IF departureDate.valid /\ departureDate.days > 90 THEN 100000
                ELSE 0
      volatilityFactor == monthData.priceVariation * (rnd - 500) * 2
  IN  Max(100000, Min(900000, base + window + volatilityFactor))

\* The probability before rounding, in millionths.
\* rnd is the Math.random() draw of the volatility factor.
RawProbabilityIncrease(monthData, pricePosition, departureDate, rnd) ==
  LET base == IF QuotLT(pricePosition, 3, 10) THEN 750000
              ELSE IF QuotGT(pricePosition, 7, 10) THEN 250000
              ELSE 500000
      window == IF departureDate.valid /\ departureDate.days < 14 THEN 200000
                ELSE IF departureDate.valid /\ departureDate.days > 90 THEN 100000
                ELSE 0
      volatilityFactor == monthData.priceVariation * (rnd - 500) * 2
  IN  Max(100000, Min(900000, base + window + volatilityFactor))

calculateProbabilities(monthData, pricePosition, departureDate, rnd) ==
  LET probabilityIncrease ==
        RawProbabilityIncrease(monthData, pricePosition, departureDate, rnd)
      probabilityDecrease == 1000000 - probabilityIncrease
  IN  [probabilityIncrease |-> MathRound(probabilityIncrease, 10000),
       probabilityDecrease |-> MathRound(probabilityDecrease, 10000)]

\* Mutant: the lower clamp is missing.
calculateConfidence_NoFloor(monthData, pricePosition, rnd) ==
  LET c1 == IF monthData.priceVariation > 20 THEN 6000 ELSE 8000
      c2 == IF QuotLT(pricePosition, 2, 10) \/ QuotGT(pricePosition, 8, 10)
            THEN c1 + 1000 ELSE c1
  IN  Min(95, MathRound(c2 + (rnd - 500), 100)) * 100

\* rnd is the Math.random() draw of the confidence jitter.
calculateConfidence(monthData, pricePosition, rnd) ==
  LET c0 == 8000
      c1 == IF monthData.priceVariation > 20 THEN c0 - 2000 ELSE c0
      c2 == IF QuotLT(pricePosition, 2, 10) \/ QuotGT(pricePosition, 8, 10)
            THEN c1 + 1000 ELSE c1
      c3 == c2 + (rnd - 500)
  IN  Max(60, Min(95, MathRound(c3, 100))) * 100

\* The calendar month of the date i weeks before now (setDate(getDate() - i * 7)).
WeekMonth(now, i) ==
  IF now.day - i * 7 >= 1 THEN now.month
  ELSE IF now.month = 1 THEN 12 ELSE now.month - 1

\* The synthesized trailing weekly prices, oldest first, in tenths of a unit
\* (minPrice * 0.8 and maxPrice * 1.2 need not be whole).
\* draws[k] is the Math.random() draw of the k-th loop iteration (i = weeks - k).
RecentPrices(route, weeks, now, draws) ==
  LET historicalData == HISTORICAL_DATA(route)
      monthData == FindMonthOrFirst(historicalData, now.month)
  IN  [k \in 1..weeks |->
         LET weekMonthData == FindMonthOrFirst(historicalData, WeekMonth(now, weeks - k))
             basePrice == weekMonthData.averagePrice
             \* Math.round(basePrice * (0.85 + random * 0.3))
             weekPrice == MathRound(basePrice * (8500 + 3 * draws[k]), 10000)
         IN  Max(weekMonthData.minPrice * 8,
                 Min(weekMonthData.maxPrice * 12, weekPrice * 10))]

isLowestPriceInRecentWeeks(currentPrice, route, weeks, now, draws) ==
  IF route \notin KnownRoutes THEN FALSE
  ELSE LET recentPrices == RecentPrices(route, weeks, now, draws)
       IN  \A k \in 1..weeks : currentPrice * 10 < recentPrices[k]

\* Mutant: the lowest-in-4-weeks signal is ignored.
Recommendation_NoLowestSignal(isLowestIn4Weeks, pricePosition, probabilityIncrease) ==
  IF QuotLT(pricePosition, 6, 10) THEN "BUY_NOW"
  ELSE IF probabilityIncrease >= 65 THEN "BUY_NOW"
  ELSE "WAIT"

\* The buy/wait decision of generatePrediction.
Recommendation(isLowestIn4Weeks, pricePosition, probabilityIncrease) ==
  IF isLowestIn4Weeks THEN "BUY_NOW"
  ELSE IF QuotLT(pricePosition, 6, 10) THEN "BUY_NOW"
  ELSE IF probabilityIncrease >= 65 THEN "BUY_NOW"
  ELSE "WAIT"

\* Which clause generateHistoricalContext appends.
generateHistoricalContext(monthData, currentPrice) ==
  IF currentPrice * 10 < monthData.averagePrice * 9 THEN "below typical range"
  ELSE IF currentPrice * 10 > monthData.averagePrice * 11 THEN "above typical range"
  ELSE "within typical range"

generatePrediction(currentPrice, route, departureDate, now, rnd) ==
  LET historicalData == RouteData(route)
      monthData == FindMonthOrFirst(historicalData, departureDate.month)
      pricePosition == PricePosition(currentPrice, monthData)
      probs == calculateProbabilities(monthData, pricePosition, departureDate, rnd.prob)
      confidence == calculateConfidence(monthData, pricePosition, rnd.conf)
      isLowestIn4Weeks ==
        isLowestPriceInRecentWeeks(currentPrice, route, WEEKS, now, rnd.weeks)
  IN  [returned |-> TRUE,
       currentPrice |-> currentPrice,
       probabilityIncrease |-> probs.probabilityIncrease,
       probabilityDecrease |-> probs.probabilityDecrease,
       confidence |-> confidence,
       recommendation |-> Recommendation(isLowestIn4Weeks, pricePosition,
                                         probs.probabilityIncrease),
       historicalContext |-> generateHistoricalContext(monthData, currentPrice),
       priceRange |-> [min |-> monthData.minPrice, max |-> monthData.maxPrice,
                       average |-> monthData.averagePrice]]

(***************************************************************************)
(* Enhanced model (EnhancedPredictionService)                              *)
(*                                                                         *)
(* An EnhancedRouteData is modelled by the fields the service reads:       *)
(*   totalDataPoints                                                       *)
(*   seasonalTrends        month -> [averagePrice, minPrice, maxPrice,     *)
(*                                   volatility (hundredths), dataPoints]  *)
(*   bookingWindowAnalysis daysAhead -> [dataPoints]                       *)
(*   dayOfWeekTrends       day -> [dataPoints]                             *)
(*   priceHistory          the prices of priceHistory.slice(0, 10)         *)
(* Weights are kept exact: seasonal, booking-window and day-of-week        *)
(* weights in tenths, the market-trend weight in hundredths, and the       *)
(* volatility weight as a quotient over 100 * (number of months).          *)
(***************************************************************************)
RECURSIVE SumOver(_, _)
SumOver(f, S) ==
  IF S = {} THEN 0
  ELSE LET x == CHOOSE y \in S : TRUE IN f[x] + SumOver(f, S \ {x})

Abs(x) == IF x < 0 THEN -x ELSE x

\* Object.keys(routeData.seasonalTrends).length
MonthCount(routeData) == Cardinality(DOMAIN routeData.seasonalTrends)

\* The sum of the monthly volatilities (hundredths); avgVolatility is
\* VolatilitySum / MonthCount.
VolatilitySum(routeData) ==
  SumOver([m \in DOMAIN routeData.seasonalTrends |->
             routeData.seasonalTrends[m].volatility],
          DOMAIN routeData.seasonalTrends)

\* windows.reduce((prev, curr) => |curr - target| < |prev - target| ? curr : prev)
\* over the windows in ascending order: the nearest one, the smaller on a tie.
getClosestBookingWindow(bookingAnalysis, targetDays) ==
  LET windows == DOMAIN bookingAnalysis
      best == CHOOSE w \in windows :
                \A v \in windows :
                  \/ Abs(w - targetDays) < Abs(v - targetDays)
                  \/ (Abs(w - targetDays) = Abs(v - targetDays) /\ w <= v)
  IN  bookingAnalysis[best]

\* routeData.bookingWindowAnalysis[bookingDaysAhead] || getClosestBookingWindow(...)
BookingData(routeData, bookingDaysAhead) ==
  IF bookingDaysAhead \in DOMAIN routeData.bookingWindowAnalysis
  THEN routeData.bookingWindowAnalysis[bookingDaysAhead]
  ELSE getClosestBookingWindow(routeData.bookingWindowAnalysis, bookingDaysAhead)

\* recentData[0].price - recentData[recentData.length - 1].price
Trend(routeData) ==
  routeData.priceHistory[1] - routeData.priceHistory[Len(routeData.priceHistory)]

\* Math.min(Math.abs(trend) / 100, 0.8), in hundredths; 0.3 with fewer than 2 points.
calculateMarketTrendWeight(routeData) ==
  IF Len(routeData.priceHistory) < 2 THEN 30
  ELSE Min(Abs(Trend(routeData)), 80)

\* Math.max(-0.2, Math.min(0.2, trend / 1000)), in thousandths.
calculateTrendEffect(routeData) ==
  IF Len(routeData.priceHistory) < 2 THEN 0
  ELSE Max(-200, Min(200, Trend(routeData)))

calculatePredictionFactors(routeData, month, dayOfWeek, bookingDaysAhead) ==
  LET n == MonthCount(routeData)
      s == VolatilitySum(routeData)
  IN  [seasonalWeight |->
         IF month \in DOMAIN routeData.seasonalTrends
         THEN Min(routeData.seasonalTrends[month].dataPoints, 10) ELSE 3,
       bookingWindowWeight |->
         Min(BookingData(routeData, bookingDaysAhead).dataPoints * 2, 10),
       dayOfWeekWeight |->
         IF dayOfWeek \in DOMAIN routeData.dayOfWeekTrends
         THEN Min(routeData.dayOfWeekTrends[dayOfWeek].dataPoints * 2, 10) ELSE 2,
       \* Math.max(0.1, 1 - avgVolatility) = Max(10 n, 100 n - s) / (100 n)
       volatilityWeight |-> Quot(Max(10 * n, 100 * n - s), 100 * n),
       marketTrendWeight |-> calculateMarketTrendWeight(routeData)]

\* probabilityIncrease before rounding, as a quotient over 1000000 * n,
\* already clamped to [0.05, 0.95].
RawEnhancedProbabilityIncrease(routeData, currentPrice, month, dayOfWeek, bookingDaysAhead, factors) ==
  LET n == MonthCount(routeData)
      s == VolatilitySum(routeData)
      seasonalTerm ==
        IF month \in DOMAIN routeData.seasonalTrends
        THEN LET seasonalData == routeData.seasonalTrends[month]
                 pricePosition == PricePosition(currentPrice, seasonalData)
                 seasonalEffect == IF QuotLT(pricePosition, 3, 10) THEN 200
                                   ELSE IF QuotGT(pricePosition, 7, 10) THEN -200
                                   ELSE 0
             IN  seasonalEffect * factors.seasonalWeight * 100
        ELSE 0
      bookingEffect == IF bookingDaysAhead < 14 THEN 250
                       ELSE IF bookingDaysAhead > 60 THEN -100 ELSE 0
      bookingTerm == bookingEffect * factors.bookingWindowWeight * 100
      dayTerm ==
        IF dayOfWeek \in DOMAIN routeData.dayOfWeekTrends
        THEN (IF dayOfWeek = 0 \/ dayOfWeek = 6 THEN 100 ELSE -50)
             * factors.dayOfWeekWeight * 100
        ELSE 0
      volatilityEffect == IF s > 20 * n THEN 100 ELSE -50
      \* volatilityEffect * volatilityWeight, over 1000000 * n
      volatilityTermN == volatilityEffect * factors.volatilityWeight.num * 10
      trendTerm == calculateTrendEffect(routeData) * factors.marketTrendWeight * 10
      total == (500000 + seasonalTerm + bookingTerm + dayTerm + trendTerm) * n
               + volatilityTermN
  IN  Quot(Max(50000 * n, Min(950000 * n, total)), 1000000 * n)

calculateEnhancedProbabilities(routeData, currentPrice, month, dayOfWeek, bookingDaysAhead, factors) ==
  LET p == RawEnhancedProbabilityIncrease(routeData, currentPrice, month, dayOfWeek,
                                          bookingDaysAhead, factors)
  IN  [probabilityIncrease |-> MathRound(p.num, p.den \div 100),
       probabilityDecrease |-> MathRound(p.den - p.num, p.den \div 100)]

\* Math.round(confidence * 100) of calculateEnhancedConfidence, every term
\* brought over the common denominator 8400 * n.
RoundedEnhancedConfidence(routeData, factors) ==
  LET n == MonthCount(routeData)
      s == VolatilitySum(routeData)
      d == 8400 * n
      base == 60 * d
      dataQuantityBonus == Min(routeData.totalDataPoints, 25) * d
      seasonalCoverage == n * 15 * 700 * n
      bookingCoverage ==
        Cardinality(DOMAIN routeData.bookingWindowAnalysis) * 10 * 1200 * n
      volatilityBonus == Max(0, (30 * n - s) * 4200)
      factorBonus ==
        15 * 210 * n * (factors.seasonalWeight + factors.bookingWindowWeight
                        + factors.dayOfWeekWeight)
        + 15 * 21 * factors.volatilityWeight.num
  IN  MathRound(base + dataQuantityBonus + seasonalCoverage + bookingCoverage
                + volatilityBonus + factorBonus, d)

\* Math.max(0.65, Math.min(0.98, Math.round(confidence * 100))), returned in
\* hundredths of a point: the bounds are the numbers 0.65 and 0.98.
calculateEnhancedConfidence(routeData, factors) ==
  Max(65, Min(98, RoundedEnhancedConfidence(routeData, factors) * 100))

generateFallbackPrediction(currentPrice) ==
  [returned |-> TRUE,
   currentPrice |-> currentPrice,
   probabilityIncrease |-> 50,
   probabilityDecrease |-> 50,
   confidence |-> 4500,
   recommendation |-> "WAIT",
   totalDataPoints |-> 0]

\* historicalData is the service's static route map, already initialized.
generateEnhancedPrediction(historicalData, currentPrice, route, month, dayOfWeek, bookingDaysAhead) ==
  IF route \notin DOMAIN historicalData
  THEN generateFallbackPrediction(currentPrice)
  ELSE LET routeData == historicalData[route]
           predictionFactors ==
             calculatePredictionFactors(routeData, month, dayOfWeek, bookingDaysAhead)
           probs == calculateEnhancedProbabilities(routeData, currentPrice, month,
                      dayOfWeek, bookingDaysAhead, predictionFactors)
       IN  [returned |-> TRUE,
            currentPrice |-> currentPrice,
            probabilityIncrease |-> probs.probabilityIncrease,
            probabilityDecrease |-> probs.probabilityDecrease,
            confidence |-> calculateEnhancedConfidence(routeData, predictionFactors),
            recommendation |->
              IF probs.probabilityIncrease >= 75 THEN "BUY_NOW" ELSE "WAIT",
            totalDataPoints |-> routeData.totalDataPoints]

(***************************************************************************)
(* Prediction calls: the inputs                                            *)
(***************************************************************************)
\* Routes asked for: two table routes and one the table does not know.
RouteInputs == {"LHR-JFK", "JFK-CDG", "XXX-YYY"}

\* Departure dates: a month with days until departure on each side of the
\* 14-day and 90-day cuts, and one unparsable date.
DepartureMonths == {1, 2, 7, 12}
DepartureDays == {13, 30, 91}
DepartureDates ==
  { [valid |-> TRUE, month |-> m, days |-> d] : m \in DepartureMonths, d \in DepartureDays }
  \cup { [valid |-> FALSE, month |-> 0, days |-> 0] }

\* Current prices, as twentieths of the month's [min, max] band counted from
\* min: below the band, inside it on and off the cuts 0.2, 0.3, 0.6, 0.7, 0.8,
\* and above it.
PriceSteps == {-6, 3, 6, 12, 15, 26}
PriceAt(monthData, step) ==
  monthData.minPrice + (step * (monthData.maxPrice - monthData.minPrice)) \div 20
\* A fixed price asked for on every route and date as well.
ScenarioPrices == {690}
PriceInputs(monthData) ==
  { PriceAt(monthData, st) : st \in PriceSteps } \cup ScenarioPrices

\* Math.random() draws (thousandths).
ProbDraws == {0, 375, 500, 625, 999}
ConfDraws == {0, 999}
WeekDraws == {0, 999}

\* new Date(): late in July (all four weeks in July) and early in February
\* (the three older weeks in January).
NowInputs == { [month |-> 7, day |-> 25], [month |-> 2, day |-> 5] }

SimpleCall(r, dep, price, nw, rp, rc, rw) ==
  [model |-> "simple", currentPrice |-> price,
   route |-> r, departureDate |-> dep, now |-> nw,
   rnd |-> [prob |-> rp, conf |-> rc, weeks |-> rw]]

\* Collected route data the enhanced service can hold for a route.
\* months: the months with data; v: the base monthly volatility; dp: data
\* points per month; full: all 7 booking windows and weekdays covered.
SeasonalTrendsOf(months, v, dp) ==
  [m \in months |->
     IF dp = 1
     THEN [averagePrice |-> 700, minPrice |-> 700, maxPrice |-> 700,
           volatility |-> 0, dataPoints |-> 1]
     ELSE [averagePrice |-> 700, minPrice |-> 600, maxPrice |-> 800,
           volatility |-> v + (m % 3), dataPoints |-> dp]]

RouteDataOf(months, v, dp, full, history) ==
  [totalDataPoints |-> IF full THEN 210 ELSE Cardinality(months) * dp,
   seasonalTrends |-> SeasonalTrendsOf(months, v, dp),
   bookingWindowAnalysis |->
     IF full THEN [w \in {7, 14, 21, 30, 45, 60, 90} |-> [dataPoints |-> 30]]
     ELSE [w \in {30} |-> [dataPoints |-> 2]],
   dayOfWeekTrends |->
     IF full THEN [d \in 0..6 |-> [dataPoints |-> 30]]
     ELSE [d \in {1, 2} |-> [dataPoints |-> 1]],
   priceHistory |-> history]

EnhancedRouteDataInputs ==
  { RouteDataOf(months, v, dp, full, history) :
      months \in { {7}, {6, 7, 8} , 2..8 }, v \in {9, 25}, dp \in {1, 4, 30},
      full \in BOOLEAN, history \in { << 700 >>, << 700, 650 >>, << 900, 700, 600 >> } }

EnhancedCalls ==
  { [model |-> "enhanced", currentPrice |-> price, route |-> r, month |-> m,
     dayOfWeek |-> d, bookingDaysAhead |-> b] :
      price \in {550, 650, 700, 760, 900}, r \in {"LHR-JFK", "XXX-YYY"},
      m \in {1, 7}, d \in {0, 3}, b \in {7, 30, 90} }

InitPrediction ==
  /\ \/ \E r \in RouteInputs, dep \in DepartureDates, nw \in NowInputs,
            rp \in ProbDraws, rc \in ConfDraws, rw \in [1..WEEKS -> WeekDraws] :
          \E price \in PriceInputs(FindMonthOrFirst(RouteData(r), dep.month)) :
            predIn = SimpleCall(r, dep, price, nw, rp, rc, rw)
     \/ predIn \in EnhancedCalls
  /\ predOut = NoPrediction
  /\ predAgain = NoPrediction
  /\ enhancedData = NotLoaded
  /\ AggIdle
  /\ ValIdle
  /\ AbIdle
  /\ HttpIdle

\* PricePredictionService.generatePrediction(currentPrice, origin, destination, departureDate)
GeneratePrediction ==
  /\ predIn.model = "simple"
  /\ ~predOut.returned
  /\ predOut' = generatePrediction(predIn.currentPrice, predIn.route,
                                   predIn.departureDate, predIn.now, predIn.rnd)
  /\ UNCHANGED << predIn, predAgain, enhancedData, aggVars, valVars, abVars, httpVars >>

\* EnhancedPredictionService.generateEnhancedPrediction(...): initialize() first
\* when historicalData is null; what loading or collecting yields for the
\* known route is the environment's choice.
GenerateEnhancedPrediction ==
  /\ predIn.model = "enhanced"
  /\ ~predOut.returned
  /\ \E rd \in EnhancedRouteDataInputs :
        /\ enhancedData' = IF enhancedData.loaded THEN enhancedData
                           ELSE [loaded |-> TRUE, routes |-> [r \in {"LHR-JFK"} |-> rd]]
        /\ predOut' = generateEnhancedPrediction(enhancedData'.routes,
                         predIn.currentPrice, predIn.route, predIn.month,
                         predIn.dayOfWeek, predIn.bookingDaysAhead)
  /\ UNCHANGED << predIn, predAgain, aggVars, valVars, abVars, httpVars >>

NextPrediction == GeneratePrediction \/ GenerateEnhancedPrediction

SpecPrediction == InitPrediction /\ [][NextPrediction]_vars

\* The same call repeated at a current price that is not lower: route,
\* departure date, new Date() and the Math.random() draws are those of the
\* first call.  Prices run from well below the month's band to well above it.
MonotoneSteps == {-40, -6, 0, 3, 5, 6, 7, 12, 13, 14, 15, 20, 26, 60}
MonotonePrices(monthData) == { PriceAt(monthData, st) : st \in MonotoneSteps }

InitPredictionTwice ==
  /\ \E r \in RouteInputs, dep \in DepartureDates, nw \in NowInputs,
        rp \in ProbDraws, rc \in ConfDraws :
       \E price \in MonotonePrices(FindMonthOrFirst(RouteData(r), dep.month)) :
         predIn = SimpleCall(r, dep, price, nw, rp, rc, [k \in 1..WEEKS |-> 0])
  /\ predOut = NoPrediction
  /\ predAgain = NoPrediction
  /\ enhancedData = NotLoaded
  /\ AggIdle
  /\ ValIdle
  /\ AbIdle
  /\ HttpIdle

GeneratePredictionAgain ==
  /\ predIn.model = "simple"
  /\ predOut.returned
  /\ ~predAgain.returned
  /\ \E price \in MonotonePrices(FindMonthOrFirst(RouteData(predIn.route),
                                                  predIn.departureDate.month)) :
       /\ price >= predIn.currentPrice
       /\ predAgain' = generatePrediction(price, predIn.route, predIn.departureDate,
                                          predIn.now, predIn.rnd)
  /\ UNCHANGED << predIn, predOut, enhancedData, aggVars, valVars, abVars, httpVars >>

NextPredictionTwice == GeneratePrediction \/ GeneratePredictionAgain

SpecPredictionTwice == InitPredictionTwice /\ [][NextPredictionTwice]_vars

(***************************************************************************)
(* Properties of the prediction calls (SpecPrediction)                     *)
(***************************************************************************)
SimpleReturned == predIn.model = "simple" /\ predOut.returned
EnhancedReturned == predIn.model = "enhanced" /\ predOut.returned

\* The profile the departure month selects for the route of the call.
CallMonthData == FindMonthOrFirst(RouteData(predIn.route), predIn.departureDate.month)

\* The current price is strictly below each of the 4 synthesized weekly prices.
CallBelowEveryWeek ==
  /\ predIn.route \in KnownRoutes
  /\ \A k \in 1..4 :
       predIn.currentPrice * 10
         < RecentPrices(predIn.route, 4, predIn.now, predIn.rnd.weeks)[k]

\* pricePosition < 0.6, on the profile with maxPrice > minPrice.
CallPositionBelow60 ==
  10 * (predIn.currentPrice - CallMonthData.minPrice)
    < 6 * (CallMonthData.maxPrice - CallMonthData.minPrice)

C2_ProbabilitiesSumToOne ==
  predOut.returned =>
    predOut.probabilityIncrease + predOut.probabilityDecrease = 100

\* C3: the confidence returned by the simple model lies in [60, 95].
C3_SimpleConfidenceRange ==
  SimpleReturned => (6000 <= predOut.confidence /\ predOut.confidence <= 9500)

\* C3 witness: an unknown route (generic profile) at a price above the band.
C3_Witness ==
  /\ SimpleReturned
  /\ predIn.route \notin KnownRoutes
  /\ predIn.currentPrice > predOut.priceRange.max
  /\ predOut.confidence >= 6000

\* C4: the confidence returned by the enhanced model lies in [65, 98] on the
\* 0-100 scale, with and without collected data for the route.
C4_EnhancedConfidenceRange ==
  EnhancedReturned => (6500 <= predOut.confidence /\ predOut.confidence <= 9800)

\* C20: with route, departure date and the random draw held fixed,
\* probabilityIncrease is non-increasing in currentPrice: for p1 <= p2, from
\* well below the profile's min to well above its max,
\* probabilityIncrease(p1) >= probabilityIncrease(p2).
C20_ProbabilityNonIncreasing ==
  (predOut.returned /\ predAgain.returned /\ predIn.model = "simple") =>
    (predOut.currentPrice <= predAgain.currentPrice
       => predOut.probabilityIncrease >= predAgain.probabilityIncrease)

\* C20 witness: the first price well below the band, the second well above
\* it, and the probability strictly lower at the second.
C20_Witness ==
  /\ predIn.model = "simple"
  /\ predOut.returned
  /\ predAgain.returned
  /\ predOut.currentPrice < predOut.priceRange.min
  /\ predAgain.currentPrice > predOut.priceRange.max
  /\ predOut.probabilityIncrease > predAgain.probabilityIncrease

\* Prediction calls over the whole reference table: every table route and an
\* unknown one, every departure month and an unparsable date.
ProfileRoutes == KnownRoutes \cup {"XXX-YYY"}
ProfileDates ==
  { [valid |-> TRUE, month |-> m, days |-> 30] : m \in 1..12 }
  \cup { [valid |-> FALSE, month |-> 0, days |-> 0] }

InitProfiles ==
  /\ \E r \in ProfileRoutes, dep \in ProfileDates :
       \E price \in PriceInputs(FindMonthOrFirst(RouteData(r), dep.month)) :
         predIn = SimpleCall(r, dep, price, [month |-> 7, day |-> 25], 500, 500,
                             [k \in 1..WEEKS |-> 0])
  /\ predOut = NoPrediction
  /\ predAgain = NoPrediction
  /\ enhancedData = NotLoaded
  /\ AggIdle
  /\ ValIdle
  /\ AbIdle
  /\ HttpIdle

NextProfiles == GeneratePrediction

SpecProfiles == InitProfiles /\ [][NextProfiles]_vars

\* The priceRange is the one of the profile the call's route and month select.
RangeOfProfile(priceRange, profile) ==
  /\ priceRange.min = profile.minPrice
  /\ priceRange.average = profile.averagePrice
  /\ priceRange.max = profile.maxPrice

\* C21: every profile a prediction can use has minPrice <= averagePrice <=
\* maxPrice, for table routes and for the generic entries of unknown routes
\* (month 1: 320 / 256 / 384), so every priceRange returned by
\* generatePrediction has min <= average <= max.
C21_ProfileOrdered ==
  predOut.returned =>
    /\ RangeOfProfile(predOut.priceRange, CallMonthData)
    /\ predOut.priceRange.min <= predOut.priceRange.average
    /\ predOut.priceRange.average <= predOut.priceRange.max
    /\ (predIn.route \notin KnownRoutes /\ predIn.departureDate.month = 1)
         => predOut.priceRange = [min |-> 256, max |-> 384, average |-> 320]

\* C21 witness: a prediction for an unknown route in May, on the generic
\* entry 440 / 352 / 528.
C21_Witness ==
  /\ predOut.returned
  /\ predIn.route \notin KnownRoutes
  /\ predIn.departureDate.month = 5
  /\ predOut.priceRange = [min |-> 352, max |-> 528, average |-> 440]


\* C22: generatePrediction recommends BUY_NOW if and only if
\* probabilityIncrease >= 0.8, and WAIT if and only if it is below 0.8.
C22_BuyNowIffEighty ==
  SimpleReturned =>
    /\ predOut.recommendation = "BUY_NOW" <=> predOut.probabilityIncrease >= 80
    /\ predOut.recommendation = "WAIT" <=> predOut.probabilityIncrease < 80

\* The collected data of the call's route, with the band of the call's month
\* widened to one unit on each side of the current price: pricePosition 0.5.
MidRangeData(routes) ==
  [routes EXCEPT ![predIn.route].seasonalTrends[predIn.month].minPrice =
                   predIn.currentPrice - 1,
                 ![predIn.route].seasonalTrends[predIn.month].maxPrice =
                   predIn.currentPrice + 1]

\* The enhanced call found a seasonal trend of zero width for its month.
ZeroWidthTrend ==
  /\ EnhancedReturned
  /\ enhancedData.loaded
  /\ predIn.route \in DOMAIN enhancedData.routes
  /\ predIn.month \in DOMAIN enhancedData.routes[predIn.route].seasonalTrends
  /\ enhancedData.routes[predIn.route].seasonalTrends[predIn.month].maxPrice
       = enhancedData.routes[predIn.route].seasonalTrends[predIn.month].minPrice

\* C25: when the profile used has maxPrice = minPrice, pricePosition is
\* treated as 0.5: the probabilities are those of a mid-range price whatever
\* currentPrice is (simple model profiles, and seasonal trends the enhanced
\* model built from a single sample).
C25_ZeroWidthIsMidRange ==
  /\ ZeroWidthTrend =>
       predOut.probabilityIncrease
         = generateEnhancedPrediction(MidRangeData(enhancedData.routes),
             predIn.currentPrice, predIn.route, predIn.month, predIn.dayOfWeek,
             predIn.bookingDaysAhead).probabilityIncrease
  /\ (SimpleReturned /\ CallMonthData.maxPrice = CallMonthData.minPrice) =>
       predOut.probabilityIncrease
         = calculateProbabilities(CallMonthData, Quot(1, 2), predIn.departureDate,
                                  predIn.rnd.prob).probabilityIncrease
(***************************************************************************)
(* Price aggregator (FlightPriceAggregator.getAverageFlightPrices)         *)
(*                                                                         *)
(* A flight offer of the real-quote provider is [amount, recencyWeight],   *)
(* the weight in tenths and 0 for an offer that carries none.  The         *)
(* provider answers both calls of one aggregation from the same offers.    *)
(* An exception is a result with threw = TRUE.                             *)
(***************************************************************************)
SeqSum(s) == SumOver(s, DOMAIN s)
SeqMin(s) == CHOOSE x \in { s[i] : i \in DOMAIN s } : \A i \in DOMAIN s : x <= s[i]
SeqMax(s) == CHOOSE x \in { s[i] : i \in DOMAIN s } : \A i \in DOMAIN s : x >= s[i]

\* flight.recencyWeight || 1.0
WeightOf(flight) == IF flight.recencyWeight = 0 THEN 10 ELSE flight.recencyWeight

\* AviasalesService.getPriceStatistics: null without offers, otherwise the
\* rounded simple and recency-weighted averages.
getPriceStatistics(flights) ==
  IF Len(flights) = 0 THEN [isNull |-> TRUE]
  ELSE [isNull |-> FALSE,
        average |-> MathRound(SeqSum([i \in DOMAIN flights |-> flights[i].amount]),
                              Len(flights)),
        weightedAverage |->
          MathRound(SeqSum([i \in DOMAIN flights |-> flights[i].amount * WeightOf(flights[i])]),
                    SeqSum([i \in DOMAIN flights |-> WeightOf(flights[i])]))]

\* Mutant: the recent quotes are not cut to three.
RecentFlights_Unsliced(flights) ==
  SelectSeq(flights, LAMBDA f : WeightOf(f) > 15)

\* aviasalesFlights.filter(f => (f.recencyWeight || 1.0) > 1.5).slice(0, 3)
RecentFlights(flights) ==
  LET recent == SelectSeq(flights, LAMBDA f : WeightOf(f) > 15)
  IN  SubSeq(recent, 1, Min(3, Len(recent)))

SOURCE_REAL == "Aviasales (Weighted)"
SOURCE_SYNTHETIC == "Synthetic Data (FlightPriceIQ)"

\* The body of the inner try: what it pushed on allPrices and sources, and
\* whether it left by an exception.
TryAviasales(provider) ==
  IF provider.statsThrows
  THEN [threw |-> TRUE, prices |-> << >>, sources |-> << >>]
  ELSE LET aviasalesStats == getPriceStatistics(provider.flights)
       IN  IF aviasalesStats.isNull
           THEN [threw |-> FALSE, prices |-> << >>, sources |-> << >>]
           ELSE LET averages == << aviasalesStats.weightedAverage, aviasalesStats.average >>
                    recentFlights == RecentFlights(provider.flights)
                IN  IF provider.searchThrows
                    THEN [threw |-> TRUE, prices |-> averages, sources |-> << >>]
                    ELSE [threw |-> FALSE,
                          prices |-> averages \o
                            [i \in DOMAIN recentFlights |-> recentFlights[i].amount],
                          sources |-> << SOURCE_REAL >>]

\* The inner try/catch: the exception is logged and dropped, what was pushed stays.
AviasalesContribution(provider) ==
  [TryAviasales(provider) EXCEPT !.threw = FALSE]

Includes(seq, x) == \E i \in DOMAIN seq : seq[i] = x

\* sum of (price - mean)^2 over the pool
SquaredDeviations(allPrices, mean) ==
  SeqSum([i \in DOMAIN allPrices |-> (allPrices[i] - mean) * (allPrices[i] - mean)])

\* coefficientOfVariation < 0.15 and > 0.3, for sqrt(sumSq / n) / mean with
\* mean > 0, squared and cross-multiplied (0.0225 = 9/400, 0.09 = 9/100).
CVBelow15(allPrices, mean) ==
  SquaredDeviations(allPrices, mean) * 400 < 9 * mean * mean * Len(allPrices)
CVAbove30(allPrices, mean) ==
  SquaredDeviations(allPrices, mean) * 100 > 9 * mean * mean * Len(allPrices)

\* Lines 100-116: the confidence of the pool.
AggregateConfidence(allPrices, sources, averagePrice) ==
  LET c0 == 75
      c1 == IF Includes(sources, "Aviasales") /\ Includes(sources, SOURCE_SYNTHETIC)
            THEN c0 + 10 ELSE c0
      c2 == IF Len(allPrices) >= 10 THEN c1 + 5 ELSE c1
      c3 == IF CVBelow15(allPrices, averagePrice) THEN c2 + 10
            ELSE IF CVAbove30(allPrices, averagePrice) THEN c2 - 10 ELSE c2
  IN  Max(50, Min(95, c3))

\* Mutant: the pool takes the prediction's average price scaled by its
\* probabilityIncrease, which carries the random jitter.
TryAggregate_JitteredPool(params, env) ==
  LET askedPrice(real) == IF Len(real.prices) > 0
                          THEN SeqSum(real.prices) \div Len(real.prices) ELSE 400
      prediction(real) == generatePrediction(askedPrice(real), params.route,
                                             params.departureDate, env.now, env.rnd)
      synthetic(made) == << made.priceRange.min,
                            made.priceRange.average + made.probabilityIncrease,
                            made.priceRange.max >>
      result(threw, allPrices, sources, averagePrice) ==
        IF threw \/ env.modelThrows
        THEN [threw |-> TRUE, isNull |-> FALSE]
        ELSE [threw |-> FALSE, isNull |-> FALSE,
              averagePrice |-> averagePrice,
              minPrice |-> SeqMin(allPrices),
              maxPrice |-> SeqMax(allPrices),
              priceCount |-> Len(allPrices),
              sources |-> sources,
              confidence |-> AggregateConfidence(allPrices, sources, averagePrice)]
      averaged(threw, allPrices, sources) ==
        result(threw, allPrices, sources, MathRound(SeqSum(allPrices), Len(allPrices)))
      pooled(real) ==
        averaged(real.threw, real.prices \o synthetic(prediction(real)),
                 real.sources \o << SOURCE_SYNTHETIC >>)
  IN  pooled(AviasalesContribution(env.provider))

\* The body of the outer try.  The prediction is asked for at the mean of the
\* real prices (whole units here) or at 400; only its priceRange is read.
TryAggregate(params, env) ==
  LET askedPrice(real) == IF Len(real.prices) > 0
                          THEN SeqSum(real.prices) \div Len(real.prices) ELSE 400
      prediction(real) == generatePrediction(askedPrice(real), params.route,
                                             params.departureDate, env.now, env.rnd)
      synthetic(priceRange) == << priceRange.min, priceRange.average, priceRange.max >>
      result(threw, allPrices, sources, averagePrice) ==
        IF threw \/ env.modelThrows
        THEN [threw |-> TRUE, isNull |-> FALSE]
        ELSE [threw |-> FALSE, isNull |-> FALSE,
              averagePrice |-> averagePrice,
              minPrice |-> SeqMin(allPrices),
              maxPrice |-> SeqMax(allPrices),
              priceCount |-> Len(allPrices),
              sources |-> sources,
              confidence |-> AggregateConfidence(allPrices, sources, averagePrice)]
      averaged(threw, allPrices, sources) ==
        result(threw, allPrices, sources, MathRound(SeqSum(allPrices), Len(allPrices)))
      pooled(real) ==
        averaged(real.threw, real.prices \o synthetic(prediction(real).priceRange),
                 real.sources \o << SOURCE_SYNTHETIC >>)
  IN  pooled(AviasalesContribution(env.provider))

\* A variant without the outer catch.
getAverageFlightPrices_NoCatch(params, env) == TryAggregate(params, env)

\* getAverageFlightPrices(params): the outer catch turns an exception into null.
getAverageFlightPrices(params, env) ==
  LET caught(body) == IF body.threw THEN [threw |-> FALSE, isNull |-> TRUE] ELSE body
  IN  caught(TryAggregate(params, env))

\* Aggregation calls: the inputs.
MaxFlights == 4
FlightInputs ==
  { [amount |-> 400, recencyWeight |-> 30], [amount |-> 700, recencyWeight |-> 0],
    [amount |-> 700, recencyWeight |-> 15], [amount |-> 1400, recencyWeight |-> 20] }
AggRoutes == {"LHR-JFK", "XXX-YYY"}
AggDepartureDates ==
  { [valid |-> TRUE, month |-> 7, days |-> 30], [valid |-> TRUE, month |-> 1, days |-> 30],
    [valid |-> FALSE, month |-> 0, days |-> 0] }
AggRnd(rp) == [prob |-> rp, conf |-> 0, weeks |-> [k \in 1..WEEKS |-> 0]]

InitAggregator ==
  /\ \E r \in AggRoutes, dep \in AggDepartureDates, n \in 0..MaxFlights,
        st \in BOOLEAN, se \in BOOLEAN, mt \in BOOLEAN, rp \in {0, 999} :
       \E fl \in [1..n -> FlightInputs] :
         aggIn = [model |-> "aggregate",
                  params |-> [route |-> r, departureDate |-> dep],
                  env |-> [provider |-> [statsThrows |-> st, flights |-> fl,
                                         searchThrows |-> se],
                           modelThrows |-> mt,
                           now |-> [month |-> 7, day |-> 25],
                           rnd |-> AggRnd(rp)]]
  /\ aggOut = NoResult
  /\ aggAgain = NoResult
  /\ PredIdle
  /\ ValIdle
  /\ AbIdle
  /\ HttpIdle

GetAverageFlightPrices ==
  /\ aggIn.model = "aggregate"
  /\ ~aggOut.returned
  /\ aggOut' = [returned |-> TRUE,
                result |-> getAverageFlightPrices(aggIn.params, aggIn.env)]
  /\ UNCHANGED << aggIn, aggAgain, predVars, valVars, abVars, httpVars >>

NextAggregator == GetAverageFlightPrices

SpecAggregator == InitAggregator /\ [][NextAggregator]_vars

\* The same call made a second time: same params, same provider and
\* collaborator state; Math.random() draws again and new Date() may have moved.
AgainDraws ==
  { [prob |-> d, conf |-> d, weeks |-> [k \in 1..WEEKS |-> d]] : d \in {0, 999} }

GetAverageFlightPricesAgain ==
  /\ aggIn.model = "aggregate"
  /\ aggOut.returned
  /\ ~aggAgain.returned
  /\ \E rnd \in AgainDraws, nw \in NowInputs :
       aggAgain' = [returned |-> TRUE, rnd |-> rnd, now |-> nw,
                    result |-> getAverageFlightPrices(aggIn.params,
                                 [aggIn.env EXCEPT !.rnd = rnd, !.now = nw])]
  /\ UNCHANGED << aggIn, aggOut, predVars, valVars, abVars, httpVars >>

NextAggregatorTwice == GetAverageFlightPrices \/ GetAverageFlightPricesAgain

SpecAggregatorTwice == InitAggregator /\ [][NextAggregatorTwice]_vars

\* C19: getAverageFlightPrices called twice with identical inputs against the
\* same provider state returns the same averagePrice, minPrice, maxPrice and
\* priceCount (and null both times or neither): the random draws of the
\* recommendation model do not reach the aggregation.
C19_SameAggregateTwice ==
  (aggOut.returned /\ aggAgain.returned) =>
    /\ aggAgain.result.threw = aggOut.result.threw
    /\ aggAgain.result.isNull = aggOut.result.isNull
    /\ ~aggOut.result.isNull =>
         /\ aggAgain.result.averagePrice = aggOut.result.averagePrice
         /\ aggAgain.result.minPrice = aggOut.result.minPrice
         /\ aggAgain.result.maxPrice = aggOut.result.maxPrice
         /\ aggAgain.result.priceCount = aggOut.result.priceCount

\* C19 witness: a second call that drew other random numbers than the first,
\* on a pool holding real and synthetic prices.
C19_Witness ==
  /\ aggOut.returned
  /\ aggAgain.returned
  /\ ~aggOut.result.isNull
  /\ ~aggAgain.result.isNull
  /\ aggAgain.rnd.prob # aggIn.env.rnd.prob
  /\ aggAgain.now # aggIn.env.now
  /\ aggOut.result.priceCount > 3
  /\ aggAgain.result.priceCount > 3
  /\ aggAgain.result.averagePrice = aggOut.result.averagePrice

(***************************************************************************)
(* Properties of the aggregation calls (SpecAggregator)                    *)
(***************************************************************************)
AggReturnedValue ==
  aggOut.returned /\ ~aggOut.result.threw /\ ~aggOut.result.isNull

\* The real-quote provider put prices in the pool; the provider failed.
RealContributed ==
  ~aggIn.env.provider.statsThrows /\ Len(aggIn.env.provider.flights) > 0
ProviderFailed ==
  aggIn.env.provider.statsThrows \/ (RealContributed /\ aggIn.env.provider.searchThrows)

\* The pool of the call, recomputed from its inputs.
CallPool ==
  LET synthetic(priceRange) == << priceRange.min, priceRange.average, priceRange.max >>
  IN  AviasalesContribution(aggIn.env.provider).prices \o
        synthetic(generatePrediction(400, aggIn.params.route,
                    aggIn.params.departureDate, aggIn.env.now, aggIn.env.rnd).priceRange)

\* C5: the confidence is 75, plus 10 when both a real-quote source and the
\* synthetic source contributed prices, plus 5 when the pool holds at least
\* 10 values, plus 10 when the coefficient of variation is below 0.15 or
\* minus 10 when it is above 0.3, clamped to [50, 95].
C5_AggregateConfidenceRule ==
  AggReturnedValue =>
    LET mean == aggOut.result.averagePrice
        bonusBoth == IF RealContributed THEN 10 ELSE 0
        bonusSize(pool) == IF Len(pool) >= 10 THEN 5 ELSE 0
        consistency(pool) == IF CVBelow15(pool, mean) THEN 10
                             ELSE IF CVAbove30(pool, mean) THEN -10 ELSE 0
        expected(pool) ==
          Max(50, Min(95, 75 + bonusBoth + bonusSize(pool) + consistency(pool)))
    IN  aggOut.result.confidence = expected(CallPool)

\* C6: getAverageFlightPrices never throws to its caller; it returns null
\* when the provider and the model both fail; when only the provider fails
\* it returns a result built from the three synthetic points.
C6_AggregatorNeverThrows ==
  aggOut.returned =>
    /\ ~aggOut.result.threw
    /\ (ProviderFailed /\ aggIn.env.modelThrows) => aggOut.result.isNull
    /\ (ProviderFailed /\ ~aggIn.env.modelThrows) =>
         /\ ~aggOut.result.isNull
         /\ Includes(aggOut.result.sources, SOURCE_SYNTHETIC)
         /\ aggOut.result.priceCount >= 3
         /\ aggIn.env.provider.statsThrows =>
              /\ aggOut.result.priceCount = 3
              /\ aggOut.result.sources = << SOURCE_SYNTHETIC >>

\* C6 witness: both failure cases have returned, one as null and one as a
\* result of the synthetic points alone.
C6_Witness ==
  /\ aggOut.returned
  /\ aggIn.env.provider.statsThrows
  /\ ~aggIn.env.modelThrows
  /\ ~aggOut.result.isNull
  /\ aggOut.result.priceCount = 3
\* The quotes of the call's provider that count as recent.
CallRecentQuotes ==
  { i \in DOMAIN aggIn.env.provider.flights :
      WeightOf(aggIn.env.provider.flights[i]) > 15 }

\* The profile whose range the recommendation model returns for the call.
AggMonthData ==
  FindMonthOrFirst(RouteData(aggIn.params.route), aggIn.params.departureDate.month)

\* C26: every aggregation adds exactly three synthetic values, the model's
\* priceRange min, average and max, under a source label other than the
\* real-quote one, and at most 3 individual recent real quotes; every
\* non-null result lists the synthetic source, has priceCount >= 3 and has
\* minPrice <= averagePrice <= maxPrice.
C26_ThreeSyntheticPoints ==
  AggReturnedValue =>
    LET averages == IF RealContributed THEN 2 ELSE 0
        individual == aggOut.result.priceCount - 3 - averages
    IN  /\ SOURCE_SYNTHETIC # SOURCE_REAL
        /\ Includes(aggOut.result.sources, SOURCE_SYNTHETIC)
        /\ aggOut.result.priceCount >= 3
        /\ individual >= 0
        /\ individual <= 3
        /\ individual <= Cardinality(CallRecentQuotes)
        /\ (RealContributed /\ ~aggIn.env.provider.searchThrows)
             => individual = Min(3, Cardinality(CallRecentQuotes))
        /\ aggOut.result.minPrice <= AggMonthData.minPrice
        /\ aggOut.result.maxPrice >= AggMonthData.maxPrice
        /\ aggOut.result.minPrice <= aggOut.result.averagePrice
        /\ aggOut.result.averagePrice <= aggOut.result.maxPrice

\* C26 witness: a provider with four recent quotes, three of them pooled
\* with the two averages and the three synthetic values.
C26_Witness ==
  /\ AggReturnedValue
  /\ Cardinality(CallRecentQuotes) = 4
  /\ aggOut.result.priceCount = 8
  /\ aggOut.result.minPrice < AggMonthData.minPrice

(***************************************************************************)
(* Historical data and backtesting (HistoricalDataManager)                 *)
(*                                                                         *)
(* A Date is a number of hours since 1 January of year 0, in years of 365  *)
(* days.  A RealHistoricalPrice is [route, price, date, departureDate,     *)
(* bookingDaysAhead, source].  A BacktestResult carries predictedPrice and *)
(* error as exact quotients.  A ValidationResult is modelled by accuracy   *)
(* (hundredths of a percent), sampleSize and validationPeriod.             *)
(***************************************************************************)
HOURS == 24
CumDays == << 0, 31, 59, 90, 120, 151, 181, 212, 243, 273, 304, 334 >>

DayOf(date) == date \div HOURS
\* Date.getFullYear(), Date.getMonth() (0-based), Date.getDate()
YearOf(date) == DayOf(date) \div 365
MonthOf(date) ==
  Cardinality({ m \in 1..12 : CumDays[m] <= DayOf(date) % 365 }) - 1
DateOf(date) == (DayOf(date) % 365) - CumDays[MonthOf(date) + 1] + 1

\* new Date(year, month, day) at the given hour; a day past the end of the
\* month runs over into the next one.
MakeDate(year, month, day, hour) ==
  (year * 365 + CumDays[month + 1] + day - 1) * HOURS + hour

\* date.setMonth(date.getMonth() - months), for months in 0..12
SetMonthBack(date, months) ==
  LET m == MonthOf(date) - months
  IN  IF m >= 0
      THEN MakeDate(YearOf(date), m, DateOf(date), date % HOURS)
      ELSE MakeDate(YearOf(date) - 1, m + 12, DateOf(date), date % HOURS)

\* Math.ceil(a / b) for b > 0
CeilDiv(a, b) == (a + b - 1) \div b

bookingWindows == << 7, 14, 21, 30, 45, 60, 90 >>

\* What AmadeusService.searchFlights does for a sample is the environment's
\* choice: it returns an offer ("price"), returns [] ("empty") or throws
\* ("throws").  The choice is a function of the parity of the week and of
\* the booking window being short; so are the price quoted and the
\* Math.random() draw of the synthetic price.
FetchOutcome(env, week, window) == env.fetch[<< week % 2, window < 30 >>]
QuotedPrice(env, week, window) == env.quote.base + env.quote.slope * week
DrawFor(env, week, window) == env.rnd[(week % 2) + 1]

basePrices(route) ==
  CASE route = "LHR-JFK" -> 450
    [] route = "LHR-KUL" -> 650
    [] route = "LHR-CPH" -> 180
    [] route = "LHR-DXB" -> 520
    [] route = "LHR-SYD" -> 1200
    [] OTHER -> 400

\* generateRealisticPrice: base * seasonal * booking * (0.8 + random * 0.4),
\* rounded; seasonal in tenths, booking in twentieths, the draw in thousandths.
generateRealisticPrice(route, departureDate, bookingWindow, rnd) ==
  LET month == MonthOf(departureDate)
      seasonalMultiplier == IF month >= 5 /\ month <= 8 THEN 13
                            ELSE IF month = 11 \/ month = 0 THEN 14 ELSE 9
      bookingMultiplier == IF bookingWindow < 14 THEN 30
                           ELSE IF bookingWindow < 30 THEN 24
                           ELSE IF bookingWindow > 90 THEN 17 ELSE 20
  IN  MathRound((basePrices(route) \div 10) * seasonalMultiplier * bookingMultiplier
                  * (2000 + rnd), 50000)

\* The samples of a collection in loop order: route, then week, then window.
Samples(routes, weeks) ==
  [k \in 1..(Len(routes) * weeks * 7) |->
     [route |-> routes[((k - 1) \div (weeks * 7)) + 1],
      week |-> ((k - 1) % (weeks * 7)) \div 7,
      window |-> bookingWindows[((k - 1) % 7) + 1]]]

\* The point pushed for a sample whose fetch did not return [].
SamplePoint(s, startDate, env) ==
  LET currentDate == startDate + s.week * 7 * HOURS
      departureDate == currentDate + s.window * HOURS
      real == FetchOutcome(env, s.week, s.window) = "price"
  IN  [route |-> s.route,
       price |-> IF real THEN QuotedPrice(env, s.week, s.window)
                 ELSE generateRealisticPrice(s.route, departureDate, s.window,
                                             DrawFor(env, s.week, s.window)),
       date |-> currentDate,
       departureDate |-> departureDate,
       bookingDaysAhead |-> s.window,
       source |-> IF real THEN "amadeus" ELSE "manual"]

\* Weekly samples: dayOffset = 0, 7, ... while dayOffset < totalDays.
SampleWeeks(startDate, endDate) ==
  LET totalDays == CeilDiv(endDate - startDate, HOURS)
  IN  IF totalDays > 0 THEN CeilDiv(totalDays, 7) ELSE 0

\* collectRealHistoricalData(routes, startDate, endDate): the list returned
\* (and saved).  A fetch that returns [] pushes nothing.
collectRealHistoricalData(routes, startDate, endDate, env) ==
  LET samples == Samples(routes, SampleWeeks(startDate, endDate))
      recorded == SelectSeq(samples,
                    LAMBDA s : FetchOutcome(env, s.week, s.window) # "empty")
  IN  [k \in 1..Len(recorded) |-> SamplePoint(recorded[k], startDate, env)]

\* localStorage.setItem(key, ...) behind typeof window !== 'undefined'
Save(store, window, key, v) ==
  IF window THEN [store EXCEPT ![key] = Some(v)] ELSE store

\* groupDataByRoute: the routes in order of first appearance, each with its points.
RECURSIVE groupDataByRoute(_)
groupDataByRoute(data) ==
  IF Len(data) = 0 THEN << >>
  ELSE LET r == data[1].route
       IN  << [route |-> r, data |-> SelectSeq(data, LAMBDA d : d.route = r)] >>
           \o groupDataByRoute(SelectSeq(data, LAMBDA d : d.route # r))

\* Mutant: BUY_NOW as soon as the price is not above the average.
makePredictionForBacktest_BuyAtAverage(currentPoint, historicalData) ==
  LET ofRoute == SelectSeq(historicalData, LAMBDA d : d.route = currentPoint.route)
      n == Min(30, Len(ofRoute))
      recentPrices == [k \in 1..n |-> ofRoute[Len(ofRoute) - n + k].price]
      sum == SeqSum(recentPrices)
      trendNum == IF n > 1 THEN recentPrices[n] - recentPrices[1] ELSE 0
  IN  IF n = 0
      THEN [predictedPrice |-> Quot(currentPoint.price, 1), recommendation |-> "WAIT"]
      ELSE [predictedPrice |-> Quot(currentPoint.price * n + 7 * trendNum, n),
            recommendation |-> IF currentPoint.price * n <= sum THEN "BUY_NOW" ELSE "WAIT"]

\* makePredictionForBacktest(currentPoint, historicalData)
makePredictionForBacktest(currentPoint, historicalData) ==
  LET ofRoute == SelectSeq(historicalData, LAMBDA d : d.route = currentPoint.route)
      n == Min(30, Len(ofRoute))
      recentPrices == [k \in 1..n |-> ofRoute[Len(ofRoute) - n + k].price]
      sum == SeqSum(recentPrices)
      trendNum == IF n > 1 THEN recentPrices[n] - recentPrices[1] ELSE 0
  IN  IF n = 0
      THEN [predictedPrice |-> Quot(currentPoint.price, 1), recommendation |-> "WAIT"]
      ELSE [predictedPrice |-> Quot(currentPoint.price * n + 7 * trendNum, n),
            \* currentPoint.price < avgPrice * 0.9
            recommendation |-> IF 10 * currentPoint.price * n < 9 * sum
                               THEN "BUY_NOW" ELSE "WAIT"]

\* findClosestFuturePrice(futurePoints, targetDepartureDate, targetBookingWindow)
findClosestFuturePrice(futurePoints, targetDepartureDate, targetBookingWindow) ==
  LET matches(p) == /\ p.departureDate = targetDepartureDate
                    /\ Abs(p.bookingDaysAhead - targetBookingWindow) <= 2
      found == { k \in DOMAIN futurePoints : matches(futurePoints[k]) }
  IN  IF found # {} THEN Some(futurePoints[CHOOSE k \in found : \A j \in found : k <= j])
      ELSE IF Len(futurePoints) > 0 THEN Some(futurePoints[1])
      ELSE Null

\* The positions in data of testData = data.filter(d => d.date >= testStartDate).
TestIndices(data, testStartDate) ==
  SelectSeq([k \in 1..Len(data) |-> k], LAMBDA k : data[k].date >= testStartDate)

\* A variant that passes the test point to the predictor as well.
PastData_WithCurrent(data, i) == SubSeq(data, 1, i + 1)

\* data.slice(0, i), for the loop index i counted from 0
PastData(data, i) == SubSeq(data, 1, i)

\* One pass of the loop body, for the loop index i counted from 0.
BacktestTrial(route, data, testIdx, i) ==
  LET predictionPoint == data[testIdx[i + 1]]
      futurePoints == [k \in 1..Min(7, Len(testIdx) - (i + 1)) |-> data[testIdx[i + 1 + k]]]
      historicalData == PastData(data, i)
      prediction == makePredictionForBacktest(predictionPoint, historicalData)
      actualFuturePrice ==
        findClosestFuturePrice(futurePoints, predictionPoint.departureDate,
                               predictionPoint.bookingDaysAhead - 7).value
      p == prediction.predictedPrice
      priceIncreased == actualFuturePrice.price > predictionPoint.price
      recommendationCorrect ==
        \/ prediction.recommendation = "BUY_NOW" /\ priceIncreased
        \/ prediction.recommendation = "WAIT" /\ ~priceIncreased
  IN  [result |->
         [route |-> route,
          predictionDate |-> predictionPoint.date,
          predictedPrice |-> p,
          actualPrice |-> actualFuturePrice.price,
          error |-> Quot(Abs(p.num - actualFuturePrice.price * p.den), p.den),
          recommendation |-> prediction.recommendation,
          actualOutcome |-> IF recommendationCorrect THEN "CORRECT" ELSE "INCORRECT",
          daysAhead |-> predictionPoint.bookingDaysAhead],
       predictorCall |->
         [route |-> route, position |-> testIdx[i + 1], historicalData |-> historicalData,
          predictionPoint |-> predictionPoint, futurePoints |-> futurePoints,
          actualFuturePrice |-> actualFuturePrice]]

\* The trials of one route: i = 0 .. testData.length - 8.
BacktestRoute(route, data, testStartDate) ==
  LET testIdx == TestIndices(data, testStartDate)
  IN  [j \in 1..Max(0, Len(testIdx) - 7) |-> BacktestTrial(route, data, testIdx, j - 1)]

RECURSIVE BacktestGroups(_, _)
BacktestGroups(groups, testStartDate) ==
  IF Len(groups) = 0 THEN << >>
  ELSE BacktestRoute(groups[1].route, groups[1].data, testStartDate)
       \o BacktestGroups(Tail(groups), testStartDate)

\* performBacktesting(historicalData, testPeriodDays): the results returned
\* (and saved), and what each call of the predictor was given.
performBacktesting(historicalData, testPeriodDays, now) ==
  LET testStartDate == now - testPeriodDays * HOURS
      trials == BacktestGroups(groupDataByRoute(historicalData), testStartDate)
  IN  [results |-> [k \in DOMAIN trials |-> trials[k].result],
       predictorCalls |-> [k \in DOMAIN trials |-> trials[k].predictorCall]]

RECURSIVE ErrorSum200(_, _, _)
\* 200 times the sum of the errors of the results lo..hi, exactly: errors are
\* quotients with denominators up to 30, so the sum is kept as
\* whole + x / L1 + y / L2, L1 the least common multiple of the denominators
\* other than 19, 23 and 29, L2 = 19 * 23 * 29, x < L1, y < L2.
ErrorSum200(backtestResults, lo, hi) ==
  LET L1 == 16 * 27 * 25 * 7 * 11 * 13 * 17
      L2 == 19 * 23 * 29
      carried(whole, x, y) ==
        [whole |-> whole + (IF x >= L1 THEN 1 ELSE 0) + (IF y >= L2 THEN 1 ELSE 0),
         x |-> IF x >= L1 THEN x - L1 ELSE x,
         y |-> IF y >= L2 THEN y - L2 ELSE y]
      term(num, den) ==
        IF den \in {19, 23, 29}
        THEN [whole |-> num \div den, x |-> 0, y |-> (num % den) * (L2 \div den)]
        ELSE [whole |-> num \div den, x |-> (num % den) * (L1 \div den), y |-> 0]
      added(a, b) == carried(a.whole + b.whole, a.x + b.x, a.y + b.y)
  IN  IF lo > hi THEN [whole |-> 0, x |-> 0, y |-> 0]
      ELSE IF lo = hi
      THEN term(200 * backtestResults[lo].error.num, backtestResults[lo].error.den)
      ELSE added(ErrorSum200(backtestResults, lo, (lo + hi) \div 2),
                 ErrorSum200(backtestResults, (lo + hi) \div 2 + 1, hi))

\* Math.round(meanAbsoluteError * 100), meanAbsoluteError = sum of errors / length:
\* the integer part of 200 * sum is whole, plus 1 when x / L1 + y / L2 >= 1
MeanAbsoluteError(backtestResults) ==
  LET L1 == 16 * 27 * 25 * 7 * 11 * 13 * 17
      L2 == 19 * 23 * 29
      carry(x, z) ==
        IF z < L2 /\ x >= z * (L1 \div L2) + CeilDiv(z * (L1 % L2), L2) THEN 1 ELSE 0
      rounded(sum) ==
        MathRound(sum.whole + carry(sum.x, L2 - sum.y), 2 * Len(backtestResults))
  IN  rounded(ErrorSum200(backtestResults, 1, Len(backtestResults)))

\* Mutant: the interval is not clamped.
ValidationMetricsOf_Unclamped(backtestResults) ==
  LET correct(r) == r.actualOutcome = "CORRECT"
      measured(correctRecommendations) ==
        [accuracy |-> MathRound(correctRecommendations * 10000, Len(backtestResults)),
         meanAbsoluteError |-> MeanAbsoluteError(backtestResults),
         confidenceInterval |->
           [lower |-> RateBounds(correctRecommendations, Len(backtestResults)).lower,
            upper |-> RateBounds(correctRecommendations, Len(backtestResults)).upper],
         sampleSize |-> Len(backtestResults),
         validationPeriod |->
           [start |-> backtestResults[1].predictionDate,
            end |-> backtestResults[Len(backtestResults)].predictionDate]]
  IN  measured(Len(SelectSeq(backtestResults, correct)))

\* Lines 201-239 of calculateValidationMetrics, for a list that is not empty;
\* accuracy and the interval bounds in hundredths of a percent,
\* meanAbsoluteError in hundredths.  rootMeanSquareError is left out.
ValidationMetricsOf(backtestResults) ==
  LET correct(r) == r.actualOutcome = "CORRECT"
      measured(correctRecommendations) ==
        [accuracy |-> MathRound(correctRecommendations * 10000, Len(backtestResults)),
         meanAbsoluteError |-> MeanAbsoluteError(backtestResults),
         confidenceInterval |->
           [lower |-> Max(0, RateBounds(correctRecommendations, Len(backtestResults)).lower),
            upper |-> Min(10000,
                          RateBounds(correctRecommendations, Len(backtestResults)).upper)],
         sampleSize |-> Len(backtestResults),
         validationPeriod |->
           [start |-> backtestResults[1].predictionDate,
            end |-> backtestResults[Len(backtestResults)].predictionDate]]
  IN  measured(Len(SelectSeq(backtestResults, correct)))

\* A variant of calculateValidationMetrics without the guard on the empty
\* list: it yields (and saves) a result over no trials.
calculateValidationMetrics_NoGuard(backtestResults) ==
  [threw |-> FALSE,
   value |-> IF Len(backtestResults) = 0
             THEN [accuracy |-> 0, meanAbsoluteError |-> 0,
                   confidenceInterval |-> [lower |-> 0, upper |-> 0], sampleSize |-> 0,
                   validationPeriod |-> [start |-> 0, end |-> 0]]
             ELSE ValidationMetricsOf(backtestResults)]

\* calculateValidationMetrics(backtestResults): throws on an empty list.
calculateValidationMetrics(backtestResults) ==
  IF Len(backtestResults) = 0
  THEN [threw |-> TRUE]
  ELSE [threw |-> FALSE, value |-> ValidationMetricsOf(backtestResults)]

(***************************************************************************)
(* Direct calls of the HistoricalDataManager: a collection, a backtest of  *)
(* what it returned, the metrics of the backtest (SpecHistory)             *)
(***************************************************************************)
Outcomes == {"price", "empty", "throws"}
FetchEnvs ==
  { [fetch |-> f, quote |-> q, rnd |-> d] :
      f \in [(0..1) \X BOOLEAN -> Outcomes],
      q \in { [base |-> 500, slope |-> 0], [base |-> 500, slope |-> 40] },
      d \in { << 0, 0 >>, << 999, 0 >> } }

RouteLists == { << >>, << "LHR-JFK" >>, << "LHR-JFK", "XXX-YYY" >> }
CollectDays == {0, 1, 7, 8, 15, 22}
TestPeriods == {7, 14, 90}

\* 1 November of year 1, 10:00
HistoryNow == MakeDate(1, 10, 1, 10)

InitHistory ==
  /\ clock = HistoryNow
  /\ hasWindow \in BOOLEAN
  /\ storage = EmptyStorage
  /\ validationCache = Null
  /\ lastValidationTime = Null
  /\ call = [op |-> "none"]
  /\ PredIdle
  /\ AggIdle
  /\ AbIdle
  /\ HttpIdle

\* HistoricalDataManager.collectRealHistoricalData(routes, startDate, endDate)
CollectRealHistoricalData ==
  /\ call.op = "none"
  /\ \E routes \in RouteLists, days \in CollectDays, env \in FetchEnvs :
       LET startDate == clock - days * HOURS
           historicalData == collectRealHistoricalData(routes, startDate, clock, env)
       IN  /\ storage' = Save(storage, hasWindow, "historical", historicalData)
           /\ call' = [op |-> "collect", routes |-> routes, startDate |-> startDate,
                       endDate |-> clock, env |-> env, threw |-> FALSE,
                       value |-> historicalData]
  /\ UNCHANGED << clock, hasWindow, validationCache, lastValidationTime, predVars, aggVars,
                  abVars, httpVars >>

\* HistoricalDataManager.performBacktesting(historicalData, testPeriodDays)
PerformBacktesting ==
  /\ call.op = "collect"
  /\ \E testPeriodDays \in TestPeriods :
       LET backtest == performBacktesting(call.value, testPeriodDays, clock)
       IN  /\ storage' = Save(storage, hasWindow, "backtest", backtest.results)
           /\ call' = [op |-> "backtest", historicalData |-> call.value,
                       testPeriodDays |-> testPeriodDays, threw |-> FALSE,
                       value |-> backtest.results,
                       predictorCalls |-> backtest.predictorCalls]
  /\ UNCHANGED << clock, hasWindow, validationCache, lastValidationTime, predVars, aggVars,
                  abVars, httpVars >>

\* HistoricalDataManager.calculateValidationMetrics(backtestResults)
CalculateValidationMetrics ==
  /\ call.op = "backtest"
  /\ LET metrics == calculateValidationMetrics(call.value)
     IN  /\ storage' = IF metrics.threw THEN storage
                       ELSE Save(storage, hasWindow, "validation", metrics.value)
         /\ call' = [op |-> "metrics", historicalData |-> call.historicalData,
                     backtestResults |-> call.value, threw |-> metrics.threw,
                     value |-> IF metrics.threw THEN Null ELSE Some(metrics.value)]
  /\ UNCHANGED << clock, hasWindow, validationCache, lastValidationTime, predVars, aggVars,
                  abVars, httpVars >>

NextHistory ==
  \/ CollectRealHistoricalData
  \/ PerformBacktesting
  \/ CalculateValidationMetrics

SpecHistory == InitHistory /\ [][NextHistory]_vars

(***************************************************************************)
(* Properties of the direct calls (SpecHistory)                            *)
(***************************************************************************)
\* The samples the collection of the last call walked through.
CallSamples == Samples(call.routes, SampleWeeks(call.startDate, call.endDate))

\* C7: collectRealHistoricalData records exactly one point for every sample
\* (route, weekly date, booking window): a real point when the fetch yields a
\* price, a synthetic point when it throws or returns no data; the series
\* has routes x ceil(days / 7) x 7 points.
C7_OnePointPerSample ==
  call.op = "collect" =>
    /\ Len(call.value)
         = Len(call.routes) * CeilDiv(DayOf(call.endDate - call.startDate), 7) * 7
    /\ Len(call.value) = Len(CallSamples)
    /\ \A k \in 1..Min(Len(call.value), Len(CallSamples)) :
         LET s == CallSamples[k]
             p == call.value[k]
         IN  /\ p.route = s.route
             /\ p.bookingDaysAhead = s.window
             /\ p.date = call.startDate + s.week * 7 * HOURS
             /\ p.source = IF FetchOutcome(call.env, s.week, s.window) = "price"
                           THEN "amadeus" ELSE "manual"

\* The series of a route in the data given to the backtest.
CallSeries(route) == SelectSeq(call.historicalData, LAMBDA d : d.route = route)
CallTestIndices(route) ==
  TestIndices(CallSeries(route), clock - call.testPeriodDays * HOURS)
CallRoutes == { call.historicalData[k].route : k \in DOMAIN call.historicalData }
PredictorCalls == { call.predictorCalls[k] : k \in DOMAIN call.predictorCalls }

\* C8: in performBacktesting, for every route and every test point with at
\* least 7 subsequent points, the predictor is given only points of the
\* route's series that come strictly before the test point.
C8_OnlyPastData ==
  call.op = "backtest" =>
    /\ \A c \in PredictorCalls :
         /\ Len(c.historicalData) < c.position
         /\ c.historicalData = SubSeq(CallSeries(c.route), 1, Len(c.historicalData))
    /\ \A r \in CallRoutes : \A j \in DOMAIN CallTestIndices(r) :
         (Len(CallTestIndices(r)) - j >= 7)
           <=> \E c \in PredictorCalls :
                 c.route = r /\ c.position = CallTestIndices(r)[j]
    /\ Len(call.value) = Len(call.predictorCalls)

\* C8 witness: the predictor was given points for a test point of a series
\* that starts before the test period.
C8_Witness ==
  /\ call.op = "backtest"
  /\ \E c \in PredictorCalls :
       Len(c.historicalData) > 0 /\ Len(c.historicalData) < c.position - 1

\* C23: for every trial recorded by performBacktesting, the actual price is
\* that of one of the next 7 points after the prediction point, with the
\* prediction point's departure date and a booking window within 2 days of
\* the prediction point's window minus 7; no other point is used.
C23_ActualPointMatches ==
  call.op = "backtest" =>
    \A k \in DOMAIN call.predictorCalls :
      LET trial == call.predictorCalls[k]
      IN  /\ \E j \in DOMAIN trial.futurePoints :
               trial.futurePoints[j] = trial.actualFuturePrice
          /\ call.value[k].actualPrice = trial.actualFuturePrice.price
          /\ trial.actualFuturePrice.departureDate = trial.predictionPoint.departureDate
          /\ Abs(trial.actualFuturePrice.bookingDaysAhead
                 - (trial.predictionPoint.bookingDaysAhead - 7)) <= 2

\* every point of the data given to the backtest has the same price
ConstantPrices ==
  \A i \in DOMAIN call.historicalData, j \in DOMAIN call.historicalData :
    call.historicalData[i].price = call.historicalData[j].price

\* C17: for a series in which every point has the same price, every trial of
\* performBacktesting predicts the actual price (error 0), recommends WAIT
\* and is CORRECT, and calculateValidationMetrics gives meanAbsoluteError 0
\* and an accuracy of 100%.
C17_ConstantSeries ==
  /\ (call.op = "backtest" /\ ConstantPrices) =>
       \A k \in DOMAIN call.value :
         /\ call.value[k].recommendation = "WAIT"
         /\ call.value[k].actualOutcome = "CORRECT"
         /\ call.value[k].error.num = 0
         /\ call.value[k].predictedPrice.num
              = call.value[k].actualPrice * call.value[k].predictedPrice.den
  /\ (call.op = "metrics" /\ ConstantPrices /\ ~call.threw) =>
       /\ call.value.value.meanAbsoluteError = 0
       /\ call.value.value.accuracy = 10000
       /\ \A k \in DOMAIN call.backtestResults :
            call.backtestResults[k].recommendation = "WAIT"

\* C17 witness: the metrics of a backtest with trials on two routes, over a
\* series of one price.
C17_Witness ==
  /\ call.op = "metrics"
  /\ ConstantPrices
  /\ ~call.threw
  /\ call.value.value.sampleSize >= 14
  /\ call.value.value.meanAbsoluteError = 0
  /\ \E k \in DOMAIN call.backtestResults : call.backtestResults[k].route = "XXX-YYY"
(***************************************************************************)
(* calculateValidationMetrics on its own, given lists of backtest results  *)
(* (SpecMetrics)                                                           *)
(***************************************************************************)
\* the longest list of backtest results drawn
MaxResults == 12

\* n results, c of them CORRECT: the first c, or the last c
ResultList(n, c, correctFirst) ==
  [k \in 1..n |->
     [route |-> "LHR-JFK",
      predictionDate |-> HistoryNow - (n - k) * 7 * HOURS,
      predictedPrice |-> Quot(1500 + 25 * (k % 3), 3),
      actualPrice |-> 500,
      error |-> Quot(25 * (k % 3), 3),
      recommendation |-> "WAIT",
      actualOutcome |-> IF (correctFirst /\ k <= c) \/ (~correctFirst /\ k > n - c)
                        THEN "CORRECT" ELSE "INCORRECT",
      daysAhead |-> 7]]

ResultLists ==
  { ResultList(n, c, f) : n \in 0..MaxResults, c \in 0..MaxResults, f \in BOOLEAN }

InitMetrics ==
  /\ clock = HistoryNow
  /\ hasWindow \in BOOLEAN
  /\ storage = EmptyStorage
  /\ validationCache = Null
  /\ lastValidationTime = Null
  /\ \E backtestResults \in ResultLists :
       call = [op |-> "backtest", historicalData |-> << >>, testPeriodDays |-> 90,
               threw |-> FALSE, value |-> backtestResults, predictorCalls |-> << >>]
  /\ PredIdle
  /\ AggIdle
  /\ AbIdle
  /\ HttpIdle

NextMetrics == CalculateValidationMetrics

SpecMetrics == InitMetrics /\ [][NextMetrics]_vars

MetricsReturned == call.op = "metrics" /\ ~call.threw
CorrectCount ==
  Cardinality({k \in DOMAIN call.backtestResults :
                 call.backtestResults[k].actualOutcome = "CORRECT"})
\* (1.96 * 100)^2 * c * (n - c): the square of the margin of error in
\* percent, times n^3
MarginSquare(c, n) == Z95 * Z95 * c * (n - c)
\* a width w (hundredths of a percent) is the margin of error to within a
\* percentage point or two
NearMargin(w, c, n) ==
  /\ w \div 100 >= 1 => (w \div 100 - 1) * (w \div 100 - 1) * n * n * n <= MarginSquare(c, n)
  /\ MarginSquare(c, n) <= (w \div 100 + 2) * (w \div 100 + 2) * n * n * n
AtLeastMargin(w, c, n) ==
  w \div 100 >= 1 => (w \div 100 - 1) * (w \div 100 - 1) * n * n * n <= MarginSquare(c, n)

\* C18: for a non-empty list of n results, accuracy = CORRECT / n (as a
\* percentage with 2 decimals), sampleSize = n, and the interval is
\* accuracy +/- 1.96 * sqrt(accuracy * (1 - accuracy) / n) clamped to the
\* range of an accuracy: 0 <= lower <= accuracy <= upper <= 100%.
C18_ClampedInterval ==
  MetricsReturned =>
    LET n == Len(call.backtestResults)
        c == CorrectCount
        v == call.value.value
    IN  /\ v.sampleSize = n
        /\ 2 * Abs(v.accuracy * n - 10000 * c) <= n
        /\ 0 <= v.confidenceInterval.lower
        /\ v.confidenceInterval.lower <= v.accuracy
        /\ v.accuracy <= v.confidenceInterval.upper
        /\ v.confidenceInterval.upper <= 10000
        /\ IF v.confidenceInterval.lower > 0
           THEN NearMargin(v.accuracy - v.confidenceInterval.lower, c, n)
           ELSE AtLeastMargin(v.accuracy, c, n)
        /\ IF v.confidenceInterval.upper < 10000
           THEN NearMargin(v.confidenceInterval.upper - v.accuracy, c, n)
           ELSE AtLeastMargin(10000 - v.accuracy, c, n)

\* C18 witness: 6 of 7 results CORRECT: the upper bound is clamped to 100%,
\* the lower bound is not clamped.
C18_Witness ==
  /\ MetricsReturned
  /\ Len(call.backtestResults) = 7
  /\ CorrectCount = 6
  /\ call.value.value.confidenceInterval.upper = 10000
  /\ call.value.value.confidenceInterval.lower \in 5900..6100

(***************************************************************************)
(* Statistical validation (StatisticalValidator)                           *)
(*                                                                         *)
(* The validator's state is st = [storage, validationCache,                *)
(* lastValidationTime]; a method yields [threw, value, st], st being the   *)
(* state it leaves behind.                                                 *)
(***************************************************************************)
VALIDATION_CACHE_HOURS == 24
VALIDATION_ROUTES == << "LHR-JFK", "LHR-KUL", "LHR-CPH", "LHR-DXB", "LHR-SYD" >>
VALIDATION_MONTHS == 6
TEST_PERIOD_DAYS == 90

\* needsValidationRefresh()
needsValidationRefresh(st, now) ==
  \/ st.lastValidationTime.isNull
  \/ st.validationCache.isNull
  \/ now - st.lastValidationTime.value >= VALIDATION_CACHE_HOURS

\* How the quote provider behaves during one validation run.
UniformFetch(o) == [k \in (0..1) \X BOOLEAN |-> o]
MixedFetch ==
  [k \in (0..1) \X BOOLEAN |->
     IF k[1] = 0 THEN "price" ELSE IF k[2] THEN "throws" ELSE "empty"]
ValidationEnvs ==
  { [fetch |-> f, quote |-> [base |-> 500, slope |-> 0], rnd |-> << 0, 999 >>] :
      f \in { UniformFetch("price"), UniformFetch("empty"), UniformFetch("throws"),
              MixedFetch } }

\* 31 August of year 1, 10:00
ValidatorNow == MakeDate(1, 7, 31, 10)
TickHours == VALIDATION_CACHE_HOURS \div 2
MaxTicks == 2
ValidatorClocks == { ValidatorNow + k * TickHours : k \in 0..MaxTicks }

\* Steps 1 and 2 of performFullValidation, tabulated.
ValidationRuns ==
  LET backtested(now, env, historicalData) ==
        [now |-> now, env |-> env, historicalData |-> historicalData,
         backtestResults |->
           performBacktesting(historicalData, TEST_PERIOD_DAYS, now).results]
  IN  { backtested(now, env,
                   collectRealHistoricalData(VALIDATION_ROUTES,
                     SetMonthBack(now, VALIDATION_MONTHS), now, env)) :
          now \in ValidatorClocks, env \in ValidationEnvs }
ValidationRun(now, env) == CHOOSE r \in ValidationRuns : r.now = now /\ r.env = env

\* performFullValidation(): collect, backtest, compute the metrics, cache them.
performFullValidation(st, window, now, env) ==
  LET cached(s2, trials, metrics) ==
        IF metrics.threw
        THEN [threw |-> TRUE, value |-> Null, trials |-> trials,
              st |-> [st EXCEPT !.storage = s2]]
        ELSE [threw |-> FALSE, value |-> Some(metrics.value), trials |-> trials,
              st |-> [storage |-> Save(s2, window, "validation", metrics.value),
                      validationCache |-> Some(metrics.value),
                      lastValidationTime |-> Some(now)]]
      backtested(s1, backtestResults) ==
        cached(Save(s1, window, "backtest", backtestResults), Len(backtestResults),
               calculateValidationMetrics(backtestResults))
      collected(run) ==
        backtested(Save(st.storage, window, "historical", run.historicalData),
                   run.backtestResults)
  IN  collected(ValidationRun(now, env))

(***************************************************************************)
(* A/B assignment as the validator uses it (ABTestingFramework)            *)
(*                                                                         *)
(* A 32-bit hash is kept as two 16-bit halves [hi, lo].  A prediction      *)
(* given to a variant carries confidence as Null when it has no such field.*)
(***************************************************************************)
VARIANTS ==
  << [id |-> "conservative", confidenceThreshold |-> 85, algorithm |-> "conservative"],
     [id |-> "balanced", confidenceThreshold |-> 75, algorithm |-> "balanced"],
     [id |-> "aggressive", confidenceThreshold |-> 65, algorithm |-> "aggressive"] >>

\* userId.charCodeAt(i), for the user ids of the model
CharCodes(userId) ==
  CASE userId = "anonymous" -> << 97, 110, 111, 110, 121, 109, 111, 117, 115 >>
    [] userId = "u1" -> << 117, 49 >>
    [] userId = "u2" -> << 117, 50 >>
    [] userId = "constructor" -> << 99, 111, 110, 115, 116, 114, 117, 99, 116, 111, 114 >>
    [] OTHER -> << >>

\* hash = ((hash << 5) - hash) + char; hash = hash & hash
HashStep(h, char) ==
  LET lo == 31 * h.lo + char
      hi == 31 * h.hi + (lo \div 65536)
  IN  [hi |-> hi % 65536, lo |-> lo % 65536]

RECURSIVE HashFrom(_, _)
HashFrom(h, codes) ==
  IF Len(codes) = 0 THEN h ELSE HashFrom(HashStep(h, Head(codes)), Tail(codes))

\* hashUserId(userId): Math.abs of the signed 32-bit hash
hashUserId(userId) ==
  LET h == HashFrom([hi |-> 0, lo |-> 0], CharCodes(userId))
  IN  IF h.hi < 32768 THEN h
      ELSE [hi |-> 65535 - h.hi + (IF h.lo = 0 THEN 1 ELSE 0),
            lo |-> (65536 - h.lo) % 65536]

\* hash % n
HashMod(h, n) == ((h.hi % n) * (65536 % n) + h.lo) % n

\* loadUserVariants(), getUserVariant(userId)
loadUserVariants(store, window) ==
  IF window /\ ~store.userVariants.isNull THEN store.userVariants.value ELSE << >>

\* The property names every plain object answers for through Object.prototype
\* (those the model's user ids can hit), and what such a lookup yields: a
\* truthy value that is no variant and has no id (id "undefined").
ObjectPrototypeKeys == {"constructor"}
InheritedMember(key) == [id |-> "undefined", inherited |-> key]

\* assignments[userId] || null
getUserVariant(store, window, userId) ==
  LET lookup(assignments) ==
        IF userId \in DOMAIN assignments THEN Some(assignments[userId])
        ELSE IF userId \in ObjectPrototypeKeys THEN Some(InheritedMember(userId))
        ELSE Null
  IN  IF window THEN lookup(loadUserVariants(store, window)) ELSE Null

\* assignUserToVariant(userId): the variant, and the storage it leaves.
assignUserToVariant(store, window, userId) ==
  LET existingVariant == getUserVariant(store, window, userId)
      variant == VARIANTS[HashMod(hashUserId(userId), Len(VARIANTS)) + 1]
      assignments == loadUserVariants(store, window)
  IN  IF ~existingVariant.isNull
      THEN [variant |-> existingVariant.value, storage |-> store]
      ELSE [variant |-> variant,
            storage |-> Save(store, window, "userVariants",
                             [u \in DOMAIN assignments \cup {userId} |->
                                IF u = userId THEN variant ELSE assignments[u]])]

\* prediction.confidence >= threshold, false when there is no confidence
ConfidenceAtLeast(prediction, threshold) ==
  ~prediction.confidence.isNull /\ prediction.confidence.value >= threshold * 100

\* A variant whose aggressive branch asks for both conditions.
applyVariantToPrediction_AggressiveAnd(prediction, variant) ==
  LET confident == ConfidenceAtLeast(prediction, variant.confidenceThreshold)
      buy == CASE variant.algorithm = "conservative" ->
                    confident /\ prediction.probabilityIncrease >= 80
               [] variant.algorithm = "aggressive" ->
                    confident /\ prediction.probabilityIncrease >= 60
               [] OTHER -> confident /\ prediction.probabilityIncrease >= 75
  IN  [prediction EXCEPT !.recommendation = IF buy THEN "BUY_NOW" ELSE "WAIT",
                         !.abTestVariant = Some(variant.id),
                         !.abTestThreshold = Some(variant.confidenceThreshold)]

\* applyVariantToPrediction(prediction, variant)
applyVariantToPrediction(prediction, variant) ==
  LET confident == ConfidenceAtLeast(prediction, variant.confidenceThreshold)
      buy == CASE variant.algorithm = "conservative" ->
                    confident /\ prediction.probabilityIncrease >= 80
               [] variant.algorithm = "aggressive" ->
                    confident \/ prediction.probabilityIncrease >= 60
               [] OTHER -> confident /\ prediction.probabilityIncrease >= 75
  IN  [prediction EXCEPT !.recommendation = IF buy THEN "BUY_NOW" ELSE "WAIT",
                         !.abTestVariant = Some(variant.id),
                         !.abTestThreshold = Some(variant.confidenceThreshold)]

\* loadTestResults()
loadTestResults(store, window) ==
  IF window /\ ~store.abTests.isNull THEN store.abTests.value ELSE << >>

\* calculateTestMetrics().find(m => m.variantId === variantId), by the two
\* fields the validator reads; successRate in hundredths of a percent.
VariantTestMetrics(store, window, variantId) ==
  LET variantResults == SelectSeq(loadTestResults(store, window),
                                  LAMBDA r : r.variantId = variantId)
      totalRecommendations == Len(variantResults)
  IN  IF totalRecommendations = 0
      THEN [variantSuccessRate |-> 0, totalTests |-> 0]
      ELSE [variantSuccessRate |->
              MathRound(Len(SelectSeq(variantResults, LAMBDA r : r.success)) * 10000,
                        totalRecommendations),
            totalTests |-> totalRecommendations]

(***************************************************************************)
(* StatisticalValidator: the validated prediction                          *)
(***************************************************************************)
\* initializeValidation()
initializeValidation(st, window, now, env) ==
  IF needsValidationRefresh(st, now)
  THEN LET refreshed(v) ==
             [threw |-> v.threw, validated |-> TRUE, trials |-> v.trials, st |-> v.st]
       IN  refreshed(performFullValidation(st, window, now, env))
  ELSE [threw |-> FALSE, validated |-> FALSE, trials |-> 0, st |-> st]

\* Mutant: the base prediction carries a confidence, and 0.8 where the
\* expected price is higher.
calculateBasePrediction_Confident(currentPrice, month, dayOfWeek) ==
  LET seasonalMultiplier == IF month >= 6 /\ month <= 8 THEN 12
                            ELSE IF month = 12 \/ month = 1 THEN 13 ELSE 10
      weekendMultiplier == IF dayOfWeek = 0 \/ dayOfWeek = 6 THEN 11 ELSE 10
      probabilityIncrease ==
        IF currentPrice * seasonalMultiplier * weekendMultiplier > currentPrice * 100
        THEN 80 ELSE 30
  IN  [currentPrice |-> currentPrice,
       probabilityIncrease |-> probabilityIncrease,
       probabilityDecrease |-> 100 - probabilityIncrease,
       confidence |-> Some(9000),
       recommendation |-> IF probabilityIncrease > 75 THEN "BUY_NOW" ELSE "WAIT",
       priceRange |-> [min |-> MathRound(currentPrice * 8, 10),
                       max |-> MathRound(currentPrice * 12, 10),
                       average |-> currentPrice],
       abTestVariant |-> Null,
       abTestThreshold |-> Null]

\* calculateBasePrediction(currentPrice, origin, destination, departureDate),
\* by the month (1-12) and weekday of the departure date.  The multipliers
\* are in tenths; 1 - probabilityIncrease is taken exactly.
calculateBasePrediction(currentPrice, month, dayOfWeek) ==
  LET seasonalMultiplier == IF month >= 6 /\ month <= 8 THEN 12
                            ELSE IF month = 12 \/ month = 1 THEN 13 ELSE 10
      weekendMultiplier == IF dayOfWeek = 0 \/ dayOfWeek = 6 THEN 11 ELSE 10
      probabilityIncrease ==
        IF currentPrice * seasonalMultiplier * weekendMultiplier > currentPrice * 100
        THEN 70 ELSE 30
  IN  [currentPrice |-> currentPrice,
       probabilityIncrease |-> probabilityIncrease,
       probabilityDecrease |-> 100 - probabilityIncrease,
       confidence |-> Null,
       recommendation |-> IF probabilityIncrease > 75 THEN "BUY_NOW" ELSE "WAIT",
       priceRange |-> [min |-> MathRound(currentPrice * 8, 10),
                       max |-> MathRound(currentPrice * 12, 10),
                       average |-> currentPrice],
       abTestVariant |-> Null,
       abTestThreshold |-> Null]

\* getDefaultMetrics()
getDefaultMetrics ==
  [trueConfidence |-> 5000, sampleSize |-> 0,
   validationPeriod |-> [text |-> "No validation performed"],
   dataQuality |-> [realDataPercentage |-> 0, temporalCoverage |-> 0, routeCoverage |-> 0]]

\* calculateStatisticalMetrics()
calculateStatisticalMetrics(st, window) ==
  IF st.validationCache.isNull THEN getDefaultMetrics
  ELSE LET validation == st.validationCache.value
           \* loadBacktestResults() || [], counted by a source no result has
           historicalData == IF window /\ ~st.storage.backtest.isNull
                             THEN st.storage.backtest.value ELSE << >>
           startDate == validation.validationPeriod.start
           endDate == validation.validationPeriod.end
       IN  [trueConfidence |-> validation.accuracy,
            sampleSize |-> validation.sampleSize,
            \* `${dateRange.start} to ${dateRange.end}`
            validationPeriod |-> [text |-> "start to end", start |-> startDate,
                                  end |-> endDate],
            dataQuality |->
              [realDataPercentage |-> 0,
               temporalCoverage |-> (YearOf(endDate) - YearOf(startDate)) * 12
                                      + (MonthOf(endDate) - MonthOf(startDate)),
               routeCoverage |-> 5]]

\* getValidatedPrediction(currentPrice, origin, destination, departureDate, userId)
getValidatedPrediction(st, window, now, env, currentPrice, month, dayOfWeek, userId) ==
  LET basePrediction == calculateBasePrediction(currentPrice, month, dayOfWeek)
      validatedPrediction(init, abVariant, st2, statisticalMetrics) ==
        [threw |-> FALSE, validated |-> init.validated, trials |-> init.trials,
         value |-> Some([prediction |-> applyVariantToPrediction(basePrediction, abVariant),
                         statisticalConfidence |-> statisticalMetrics,
                         validatedConfidence |-> statisticalMetrics.trueConfidence,
                         abTestMetrics |->
                           VariantTestMetrics(st2.storage, window, abVariant.id)]),
         st |-> st2]
      measured(init, abVariant, st2) ==
        validatedPrediction(init, abVariant, st2, calculateStatisticalMetrics(st2, window))
      assigned(init, a) ==
        measured(init, a.variant, [init.st EXCEPT !.storage = a.storage])
      initialized(init) ==
        IF init.threw
        THEN [threw |-> TRUE, validated |-> init.validated, trials |-> init.trials,
              value |-> Null, st |-> init.st]
        ELSE assigned(init, assignUserToVariant(init.st.storage, window, userId))
  IN  initialized(IF st.validationCache.isNull
                  THEN initializeValidation(st, window, now, env)
                  ELSE [threw |-> FALSE, validated |-> FALSE, trials |-> 0, st |-> st])

(***************************************************************************)
(* Calls of the StatisticalValidator over time (SpecValidator)             *)
(***************************************************************************)
UserIds == {"anonymous", "u1", "u2"}
ValidatedPrices == {500}
ValidatedMonths == {3, 7}
ValidatedDays == {0, 3}

ValidatorState ==
  [storage |-> storage, validationCache |-> validationCache,
   lastValidationTime |-> lastValidationTime]

InitValidator ==
  /\ clock = ValidatorNow
  /\ hasWindow \in BOOLEAN
  /\ storage = EmptyStorage
  /\ validationCache = Null
  /\ lastValidationTime = Null
  /\ call = [op |-> "none"]
  /\ PredIdle
  /\ AggIdle
  /\ AbIdle
  /\ HttpIdle

\* StatisticalValidator.performFullValidation()
PerformFullValidation ==
  /\ \E env \in ValidationEnvs :
       LET Returned(r) ==
             /\ storage' = r.st.storage
             /\ validationCache' = r.st.validationCache
             /\ lastValidationTime' = r.st.lastValidationTime
             /\ call' = [op |-> "performFullValidation", threw |-> r.threw,
                         validated |-> TRUE, trials |-> r.trials, value |-> r.value]
       IN  Returned(performFullValidation(ValidatorState, hasWindow, clock, env))
  /\ UNCHANGED << clock, hasWindow, predVars, aggVars, abVars, httpVars >>

\* StatisticalValidator.initializeValidation()
InitializeValidation ==
  /\ \E env \in ValidationEnvs :
       LET Returned(r) ==
             /\ storage' = r.st.storage
             /\ validationCache' = r.st.validationCache
             /\ lastValidationTime' = r.st.lastValidationTime
             /\ call' = [op |-> "initializeValidation", threw |-> r.threw,
                         validated |-> r.validated, trials |-> r.trials, value |-> Null]
       IN  Returned(initializeValidation(ValidatorState, hasWindow, clock, env))
  /\ UNCHANGED << clock, hasWindow, predVars, aggVars, abVars, httpVars >>

\* StatisticalValidator.getValidatedPrediction(currentPrice, origin, destination, departureDate, userId)
GetValidatedPrediction ==
  /\ \E env \in ValidationEnvs, currentPrice \in ValidatedPrices,
        month \in ValidatedMonths, dayOfWeek \in ValidatedDays, userId \in UserIds :
       LET Returned(r) ==
             /\ storage' = r.st.storage
             /\ validationCache' = r.st.validationCache
             /\ lastValidationTime' = r.st.lastValidationTime
             /\ call' = [op |-> "getValidatedPrediction", threw |-> r.threw,
                         validated |-> r.validated, trials |-> r.trials, value |-> r.value]
       IN  Returned(getValidatedPrediction(ValidatorState, hasWindow, clock, env,
                                           currentPrice, month, dayOfWeek, userId))
  /\ UNCHANGED << clock, hasWindow, predVars, aggVars, abVars, httpVars >>

\* Time passes.
Tick ==
  /\ clock + TickHours <= ValidatorNow + MaxTicks * TickHours
  /\ clock' = clock + TickHours
  /\ UNCHANGED << hasWindow, storage, validationCache, lastValidationTime, call,
                  predVars, aggVars, abVars, httpVars >>

NextValidator ==
  \/ PerformFullValidation
  \/ InitializeValidation
  \/ GetValidatedPrediction
  \/ Tick

SpecValidator == InitValidator /\ [][NextValidator]_vars

(***************************************************************************)
(* Properties of the validator (SpecValidator)                             *)
(***************************************************************************)
\* A validation result is cached and 24 hours or more have passed since it
\* was computed; it is cached and younger than that.
CacheStale ==
  /\ ~validationCache.isNull
  /\ ~lastValidationTime.isNull
  /\ clock - lastValidationTime.value >= VALIDATION_CACHE_HOURS
CacheFresh ==
  /\ ~validationCache.isNull
  /\ ~lastValidationTime.isNull
  /\ clock - lastValidationTime.value < VALIDATION_CACHE_HOURS

\* C24: a cached validation result is used only while younger than 24 hours:
\* once 24 hours have passed since lastValidationTime, initializeValidation
\* and getValidatedPrediction run a full validation before using it; while
\* it is younger, initializeValidation does not recompute it.
C24_StaleCacheRecomputed ==
  [][ clock' = clock =>
        /\ (CacheStale /\ call'.op \in {"initializeValidation", "getValidatedPrediction"})
             => call'.validated
        /\ (CacheFresh /\ call'.op = "initializeValidation") => ~call'.validated ]_vars

\* The last call ran a validation whose backtest produced no trial.
ValidatedWithZeroTrials(c) == c.op # "none" /\ c.validated /\ c.trials = 0

\* C9: calculateValidationMetrics raises on an empty list of backtest
\* results, and then nothing is changed: no validation result is stored and
\* performFullValidation leaves validationCache and lastValidationTime as
\* they were.
C9_EmptyBacktestChangesNothing ==
  [][ ValidatedWithZeroTrials(call') =>
        /\ call'.threw
        /\ validationCache' = validationCache
        /\ lastValidationTime' = lastValidationTime
        /\ storage'.validation = storage.validation ]_vars

\* C9 witness: performFullValidation has failed on zero trials while an
\* earlier validation is cached and stored.
C9_Witness ==
  /\ call.op = "performFullValidation"
  /\ call.trials = 0
  /\ call.threw
  /\ ~validationCache.isNull
  /\ ~storage.validation.isNull

\* C10: when the backtest produced zero trials, getValidatedPrediction does
\* not propagate the error: it returns a prediction carrying the default
\* metrics (trueConfidence 50, sampleSize 0, 'No validation performed').
C10_ZeroTrialsReportsDefault ==
  (call.op = "getValidatedPrediction" /\ ValidatedWithZeroTrials(call)) =>
    /\ ~call.threw
    /\ ~call.value.isNull
    /\ call.value.value.statisticalConfidence = getDefaultMetrics
(***************************************************************************)
(* A/B experiment framework (ABTestingFramework): assignments, the result  *)
(* log and the scheduled outcome checks                                    *)
(*                                                                         *)
(* An ABTestResult is [variantId, userId, route, recommendation,           *)
(* userAction, actualOutcome, success, timestamp, priceAtRecommendation,   *)
(* priceAfter7Days, savings]; the last two are Null while undefined and    *)
(* are in tenths of a unit.  The log is localStorage[TEST_KEY].            *)
(***************************************************************************)
\* recordTestResult(result): the storage it leaves
recordTestResult(store, window, result) ==
  Save(store, window, "abTests", Append(loadTestResults(store, window), result))

\* trackUserAction(userId, route, recommendation, userAction, priceAtRecommendation):
\* whether it went past the early return, the result it built, the storage it
\* leaves; the result is also what scheduleOutcomeCheck hands to the timer.
trackUserAction(store, window, now, userId, route, recommendation, userAction, priceAtRecommendation) ==
  LET built(variant) ==
        [variantId |-> variant.id, userId |-> userId, route |-> route,
         recommendation |-> recommendation, userAction |-> userAction,
         actualOutcome |-> "UNKNOWN", success |-> FALSE, timestamp |-> now,
         priceAtRecommendation |-> priceAtRecommendation,
         priceAfter7Days |-> Null, savings |-> Null]
      recorded(result) ==
        [recorded |-> TRUE, result |-> Some(result),
         storage |-> recordTestResult(store, window, result)]
      tracked(variant) ==
        IF variant.isNull THEN [recorded |-> FALSE, result |-> Null, storage |-> store]
        ELSE recorded(built(variant.value))
  IN  tracked(getUserVariant(store, window, userId))

\* results.findIndex(r => r.userId === result.userId && r.timestamp === result.timestamp),
\* counted from 1, 0 when there is none
FindResultIndex(results, result) ==
  LET found == { k \in DOMAIN results : /\ results[k].userId = result.userId
                                        /\ results[k].timestamp = result.timestamp }
  IN  IF found = {} THEN 0 ELSE CHOOSE k \in found : \A j \in found : k <= j

\* checkActualOutcome(result), for a Math.random() draw in thousandths: the
\* price change (random - 0.5) * 100 is rnd - 500 tenths.
checkActualOutcome(store, window, result, rnd) ==
  LET newPrice == result.priceAtRecommendation * 10 + (rnd - 500)
      increased == newPrice > result.priceAtRecommendation * 10
      success == \/ result.recommendation = "BUY_NOW" /\ increased
                 \/ result.recommendation = "WAIT" /\ ~increased
      savings == IF result.recommendation = "BUY_NOW"
                 THEN newPrice - result.priceAtRecommendation * 10
                 ELSE result.priceAtRecommendation * 10 - newPrice
      updatedResult ==
        [result EXCEPT !.actualOutcome = IF increased THEN "PRICE_INCREASED"
                                         ELSE "PRICE_DECREASED",
                       !.success = success,
                       !.priceAfter7Days = Some(newPrice),
                       !.savings = Some(savings)]
      updated(results, index) ==
        IF index = 0 THEN store
        ELSE Save(store, window, "abTests", [results EXCEPT ![index] = updatedResult])
      stored(results) == updated(results, FindResultIndex(results, result))
  IN  stored(loadTestResults(store, window))

(***************************************************************************)
(* One validated prediction for any price, month and weekday               *)
(* (SpecValidatedVariants)                                                 *)
(***************************************************************************)
VariantPrices == {0, 1, 500, 100000}

\* StatisticalValidator.getValidatedPrediction(...), as a first call.
GetValidatedPredictionOnce ==
  /\ call.op = "none"
  /\ \E env \in ValidationEnvs, currentPrice \in VariantPrices,
        month \in 1..12, dayOfWeek \in 0..6, userId \in UserIds :
       LET Returned(r) ==
             /\ storage' = r.st.storage
             /\ validationCache' = r.st.validationCache
             /\ lastValidationTime' = r.st.lastValidationTime
             /\ call' = [op |-> "getValidatedPrediction", threw |-> r.threw,
                         validated |-> r.validated, trials |-> r.trials, value |-> r.value]
       IN  Returned(getValidatedPrediction(ValidatorState, hasWindow, clock, env,
                                           currentPrice, month, dayOfWeek, userId))
  /\ UNCHANGED << clock, hasWindow, predVars, aggVars, abVars, httpVars >>

NextValidatedVariants == GetValidatedPredictionOnce

SpecValidatedVariants == InitValidator /\ [][NextValidatedVariants]_vars

\* getValidatedPrediction returned a prediction.
ValidatedReturned ==
  call.op = "getValidatedPrediction" /\ ~call.threw /\ ~call.value.isNull

\* C29: for a user assigned the conservative or the balanced variant,
\* getValidatedPrediction never returns BUY_NOW, for any price, route and
\* date: the base prediction has no confidence and a probabilityIncrease of
\* 0.7 or 0.3; only the aggressive variant can yield BUY_NOW.
C29_OnlyAggressiveBuys ==
  ValidatedReturned =>
    LET prediction == call.value.value.prediction
    IN  /\ prediction.confidence.isNull
        /\ prediction.probabilityIncrease \in {30, 70}
        /\ prediction.abTestVariant.value \in {"conservative", "balanced"}
             => prediction.recommendation = "WAIT"
        /\ prediction.recommendation = "BUY_NOW"
             => prediction.abTestVariant.value = "aggressive"

\* C29 witness: a conservative user at the higher probability, told to wait.
C29_Witness ==
  /\ ValidatedReturned
  /\ call.value.value.prediction.abTestVariant.value = "conservative"
  /\ call.value.value.prediction.probabilityIncrease = 70
  /\ call.value.value.prediction.currentPrice = 100000
  /\ call.value.value.prediction.recommendation = "WAIT"

(***************************************************************************)
(* Overlapping calls of the StatisticalValidator (SpecOverlap)             *)
(*                                                                         *)
(* The calls are async functions on one event loop: a call runs up to an   *)
(* await, and another call can run before it goes on.  A call that enters  *)
(* performFullValidation awaits the collection and the backtest; the       *)
(* metrics and the two cache writes follow in one synchronous stretch, and *)
(* so does what is left of the calling function.  call holds the calls in  *)
(* flight: per caller its function, its position and the time its          *)
(* validation run started.  The saves of the collection and of the         *)
(* backtest are taken at the step that ends the run.                       *)
(***************************************************************************)
Callers == {1, 2}
CallKinds == {"initializeValidation", "getValidatedPrediction"}

InitOverlap ==
  /\ clock = ValidatorNow
  /\ hasWindow \in BOOLEAN
  /\ storage = EmptyStorage
  /\ validationCache = Null
  /\ lastValidationTime = Null
  /\ \E kind \in [Callers -> CallKinds], env \in [Callers -> ValidationEnvs] :
       call = [op |-> "overlapping", kind |-> kind, env |-> env,
               pc |-> [c \in Callers |-> "idle"],
               started |-> [c \in Callers |-> ValidatorNow]]
  /\ PredIdle
  /\ AggIdle
  /\ AbIdle
  /\ HttpIdle

\* What is left of the caller's function once a validation result is there
\* or the run threw: initializeValidation returns, getValidatedPrediction
\* assigns the variant and builds the prediction.
Continued(c, st, threw) ==
  IF threw \/ call.kind[c] = "initializeValidation" THEN st
  ELSE getValidatedPrediction(st, hasWindow, clock, call.env[c], 500, 7, 3, "u1").st

\* A call starts: `if (!this.validationCache)` in getValidatedPrediction,
\* needsValidationRefresh() in initializeValidation, and then up to the first
\* await of performFullValidation, or to the end when there is nothing to run.
BeginCall ==
  /\ call.op = "overlapping"
  /\ \E c \in Callers :
       /\ call.pc[c] = "idle"
       /\ LET runs == /\ (call.kind[c] = "getValidatedPrediction" => validationCache.isNull)
                      /\ needsValidationRefresh(ValidatorState, clock)
              Left(st) == /\ storage' = st.storage
                          /\ validationCache' = st.validationCache
                          /\ lastValidationTime' = st.lastValidationTime
          IN  IF runs
              THEN /\ call' = [call EXCEPT !.pc[c] = "validating", !.started[c] = clock]
                   /\ UNCHANGED << storage, validationCache, lastValidationTime >>
              ELSE /\ call' = [call EXCEPT !.pc[c] = "done"]
                   /\ Left(Continued(c, ValidatorState, FALSE))
  /\ UNCHANGED << clock, hasWindow, predVars, aggVars, abVars, httpVars >>

\* The run of a call ends: the metrics are computed,
\* this.validationCache = validationResult; this.lastValidationTime = new Date(),
\* and the caller goes on to its end.
EndValidation ==
  /\ call.op = "overlapping"
  /\ \E c \in Callers :
       /\ call.pc[c] = "validating"
       /\ LET Left(st) == /\ storage' = st.storage
                          /\ validationCache' = st.validationCache
                          /\ lastValidationTime' = st.lastValidationTime
              Ran(r) ==
                Left(Continued(c,
                       IF r.threw THEN r.st
                       ELSE [r.st EXCEPT !.lastValidationTime = Some(clock)],
                       r.threw))
          IN  Ran(performFullValidation(ValidatorState, hasWindow, call.started[c],
                                        call.env[c]))
       /\ call' = [call EXCEPT !.pc[c] = "done"]
  /\ UNCHANGED << clock, hasWindow, predVars, aggVars, abVars, httpVars >>

NextOverlap == BeginCall \/ EndValidation \/ Tick

SpecOverlap == InitOverlap /\ [][NextOverlap]_vars

\* The callers whose full validation is in progress.
Validating == { c \in Callers : call.pc[c] = "validating" }

\* C28: when calls of getValidatedPrediction or initializeValidation overlap
\* while no fresh validation is cached, at most one full validation runs: a
\* call that starts while one is in progress starts no second one; and
\* validationCache and lastValidationTime are written together.
C28_SingleValidation ==
  /\ [](call.op = "overlapping" => Cardinality(Validating) <= 1)
  /\ [][ (validationCache' # validationCache)
           => (~validationCache'.isNull /\ lastValidationTime' = Some(clock)) ]_vars
  /\ [][ (lastValidationTime' # lastValidationTime)
           => (EndValidation /\ ~validationCache'.isNull) ]_vars

(***************************************************************************)
(* Calls of the A/B framework over time (SpecAB)                           *)
(***************************************************************************)
MaxLog == 2
MaxAbTicks == 1
AbUserIds == {"anonymous", "u1", "u2", "constructor"}
TrackedUserIds == {"u1", "constructor"}
Recommendations == {"BUY_NOW", "WAIT"}
OutcomeDraws == {0, 999}
AbNow == MakeDate(1, 7, 31, 10)

\* A result recorded directly, already resolved.
DirectResults ==
  { [variantId |-> v, userId |-> "u2", route |-> "LHR-JFK", recommendation |-> "WAIT",
     userAction |-> "WAITED", actualOutcome |-> "PRICE_DECREASED", success |-> TRUE,
     timestamp |-> AbNow, priceAtRecommendation |-> 500,
     priceAfter7Days |-> Some(4500), savings |-> Some(500)] :
       v \in {"conservative", "aggressive"} }

InitAB ==
  /\ clock = AbNow
  /\ hasWindow \in BOOLEAN
  /\ storage = EmptyStorage
  /\ validationCache = Null
  /\ lastValidationTime = Null
  /\ call = [op |-> "none"]
  /\ firstVariant = << >>
  /\ timers = << >>
  /\ PredIdle
  /\ AggIdle
  /\ HttpIdle

\* ABTestingFramework.assignUserToVariant(userId)
AssignUserToVariant ==
  /\ \E userId \in AbUserIds :
       LET Returned(r) ==
             /\ storage' = r.storage
             /\ firstVariant' =
                  IF userId \in DOMAIN firstVariant THEN firstVariant
                  ELSE [u \in DOMAIN firstVariant \cup {userId} |->
                          IF u = userId THEN r.variant.id ELSE firstVariant[u]]
             /\ call' = [op |-> "assignUserToVariant", userId |-> userId,
                         variantId |-> r.variant.id]
       IN  Returned(assignUserToVariant(storage, hasWindow, userId))
  /\ UNCHANGED << clock, hasWindow, validationCache, lastValidationTime, timers,
                  predVars, aggVars, httpVars >>

\* ABTestingFramework.recordTestResult(result)
RecordTestResult ==
  /\ Len(loadTestResults(storage, hasWindow)) < MaxLog
  /\ \E result \in DirectResults :
       /\ storage' = recordTestResult(storage, hasWindow, result)
       /\ call' = [op |-> "recordTestResult", recorded |-> TRUE]
  /\ UNCHANGED << clock, hasWindow, validationCache, lastValidationTime, abVars,
                  predVars, aggVars, httpVars >>

\* ABTestingFramework.trackUserAction(...): records, then setTimeout(checkActualOutcome)
TrackUserAction ==
  /\ Len(loadTestResults(storage, hasWindow)) < MaxLog
  /\ \E userId \in TrackedUserIds, recommendation \in Recommendations :
       LET Returned(r) ==
             /\ storage' = r.storage
             /\ timers' = IF r.recorded THEN Append(timers, r.result.value) ELSE timers
             /\ call' = [op |-> "trackUserAction", recorded |-> r.recorded]
       IN  Returned(trackUserAction(storage, hasWindow, clock, userId, "LHR-JFK",
                                    recommendation, "NO_ACTION", 500))
  /\ UNCHANGED << clock, hasWindow, validationCache, lastValidationTime, firstVariant,
                  predVars, aggVars, httpVars >>

\* A timer set by scheduleOutcomeCheck fires: checkActualOutcome(result)
CheckActualOutcome ==
  /\ \E k \in DOMAIN timers, rnd \in OutcomeDraws :
       /\ storage' = checkActualOutcome(storage, hasWindow, timers[k], rnd)
       /\ timers' = [j \in 1..(Len(timers) - 1) |-> IF j < k THEN timers[j] ELSE timers[j + 1]]
       /\ call' = [op |-> "checkActualOutcome", recorded |-> FALSE]
  /\ UNCHANGED << clock, hasWindow, validationCache, lastValidationTime, firstVariant,
                  predVars, aggVars, httpVars >>

\* Time passes.
AbTick ==
  /\ clock < AbNow + MaxAbTicks
  /\ clock' = clock + 1
  /\ UNCHANGED << hasWindow, storage, validationCache, lastValidationTime, call, abVars,
                  predVars, aggVars, httpVars >>

NextAB ==
  \/ AssignUserToVariant
  \/ RecordTestResult
  \/ TrackUserAction
  \/ CheckActualOutcome
  \/ AbTick

SpecAB == InitAB /\ [][NextAB]_vars

(***************************************************************************)
(* Properties of the A/B framework (SpecAB)                                *)
(***************************************************************************)
VariantIds == { VARIANTS[k].id : k \in DOMAIN VARIANTS }

\* C11: assignUserToVariant is deterministic and sticky: through every
\* sequence of operations, with or without browser storage, every call for a
\* userId returns the variant with the same id as the first call for that
\* userId, and that variant is one of the 3 fixed variants.
C11_StickyAssignment ==
  call.op = "assignUserToVariant" =>
    /\ call.variantId = firstVariant[call.userId]
    /\ call.variantId \in VariantIds

\* The result log.
Log == loadTestResults(storage, hasWindow)

\* C14: the result log is append-only and immutable: every recordTestResult,
\* and every trackUserAction that records, adds exactly one entry at the end
\* of the log (where there is a log: with browser storage), and no operation,
\* the scheduled outcome check included, changes or removes an entry that is
\* already in the log.
C14_AppendOnlyLog ==
  [][ /\ Len(Log') >= Len(Log)
      /\ SubSeq(Log', 1, Len(Log)) = Log
      /\ (hasWindow /\ (RecordTestResult \/ (TrackUserAction /\ call'.recorded)))
           => Len(Log') = Len(Log) + 1 ]_vars

\* The timers set by setTimeout do fire.
SpecABFair == SpecAB /\ WF_vars(CheckActualOutcome)

\* The log holds an entry at position k whose outcome is not resolved; it
\* holds one there whose outcome is resolved.
Unresolved(k) == k \in DOMAIN Log /\ Log[k].actualOutcome = "UNKNOWN"
Resolved(k) == k \in DOMAIN Log /\ Log[k].actualOutcome # "UNKNOWN"

\* C27: every result that trackUserAction appends to the log eventually has
\* its outcome resolved by its scheduled outcome check, for every
\* interleaving of trackUserAction calls and outcome checks, two results of
\* one user with the same timestamp included.
C27_OutcomeEventuallyResolved ==
  \A k \in 1..MaxLog : Unresolved(k) ~> Resolved(k)

\* C30: trackUserAction for a user who has no stored variant assignment
\* changes nothing: the log is unchanged, no outcome check is scheduled and
\* no variant is assigned; a result is recorded only for a user whose
\* assignment assignUserToVariant stored earlier.
C30_UnassignedUserTracksNothing ==
  [][ TrackUserAction =>
        /\ storage'.userVariants = storage.userVariants
        /\ (Log' # Log \/ timers' # timers) =>
             /\ call'.recorded
             /\ Len(Log') = Len(Log) + 1
             /\ Len(timers') = Len(timers) + 1
             /\ Log'[Len(Log')].userId \in DOMAIN loadUserVariants(storage, hasWindow)
        /\ call'.recorded => Log' # Log ]_vars
(***************************************************************************)
(* applyVariantToPrediction on its own (SpecVariant)                       *)
(***************************************************************************)
\* A variant that writes to the prediction it was given instead of a copy.
applyVariantObjects_NoCopy(prediction, variant) ==
  [argument |-> applyVariantToPrediction(prediction, variant),
   returned |-> applyVariantToPrediction(prediction, variant)]

\* The two objects after applyVariantToPrediction(prediction, variant): the
\* argument, which line 91 copies and no line writes to, and the copy returned.
applyVariantObjects(prediction, variant) ==
  [argument |-> prediction,
   returned |-> applyVariantToPrediction(prediction, variant)]

VariantConfidences ==
  {Null, Some(6400), Some(6500), Some(7499), Some(7500), Some(8499), Some(8500)}
VariantProbabilities == {30, 59, 60, 74, 75, 79, 80}
VariantPredictions ==
  { [currentPrice |-> 500, probabilityIncrease |-> p, probabilityDecrease |-> 100 - p,
     confidence |-> c, recommendation |-> r,
     priceRange |-> [min |-> 400, max |-> 600, average |-> 500],
     abTestVariant |-> Null, abTestThreshold |-> Null] :
       p \in VariantProbabilities, c \in VariantConfidences, r \in Recommendations }

InitVariant ==
  /\ \E prediction \in VariantPredictions, k \in DOMAIN VARIANTS :
       call = [op |-> "input", prediction |-> prediction, variant |-> VARIANTS[k]]
  /\ clock = 0
  /\ hasWindow = FALSE
  /\ storage = EmptyStorage
  /\ validationCache = Null
  /\ lastValidationTime = Null
  /\ PredIdle
  /\ AggIdle
  /\ AbIdle
  /\ HttpIdle

\* ABTestingFramework.applyVariantToPrediction(prediction, variant)
ApplyVariantToPrediction ==
  /\ call.op = "input"
  /\ LET Returned(r) ==
           call' = [op |-> "applyVariantToPrediction", input |-> call.prediction,
                    variant |-> call.variant, prediction |-> r.argument,
                    value |-> r.returned]
     IN  Returned(applyVariantObjects(call.prediction, call.variant))
  /\ UNCHANGED << clock, hasWindow, storage, validationCache, lastValidationTime,
                  predVars, aggVars, abVars, httpVars >>

NextVariant == ApplyVariantToPrediction

SpecVariant == InitVariant /\ [][NextVariant]_vars

(***************************************************************************)
(* Properties of applyVariantToPrediction (SpecVariant)                    *)
(***************************************************************************)
VariantApplied == call.op = "applyVariantToPrediction"

\* C12 as stated: the returned prediction has the same fields with the same
\* values as the input prediction except for recommendation, and the input
\* prediction is left unmodified.
C12_OnlyRecommendationOverridden ==
  VariantApplied =>
    /\ call.value = [call.input EXCEPT !.recommendation = call.value.recommendation]
    /\ call.prediction = call.input

\* C12, amended: the returned prediction differs from the input prediction
\* in recommendation and in the two fields the call adds, abTestVariant (the
\* variant's id) and abTestThreshold (its confidenceThreshold), and in
\* nothing else; the input prediction is left unmodified.
C12_RecommendationAndVariantInfo ==
  VariantApplied =>
    /\ call.value = [call.input EXCEPT !.recommendation = call.value.recommendation,
                                      !.abTestVariant = Some(call.variant.id),
                                      !.abTestThreshold =
                                         Some(call.variant.confidenceThreshold)]
    /\ call.prediction = call.input

\* C12 witness: a call that turned BUY_NOW into WAIT.
C12_Witness ==
  /\ VariantApplied
  /\ call.input.recommendation = "BUY_NOW"
  /\ call.value.recommendation = "WAIT"
  /\ call.prediction.recommendation = "BUY_NOW"

\* confidence >= c points, false for a prediction without a confidence
InputConfidenceAtLeast(c) ==
  ~call.input.confidence.isNull /\ call.input.confidence.value >= c * 100

\* C13: recommendation is BUY_NOW exactly when: conservative - confidence >=
\* 85 and probabilityIncrease >= 0.8; balanced - confidence >= 75 and
\* probabilityIncrease >= 0.75; aggressive - confidence >= 65 or
\* probabilityIncrease >= 0.6; WAIT otherwise, whatever the input carried.
C13_VariantThresholds ==
  VariantApplied =>
    /\ call.value.recommendation \in {"BUY_NOW", "WAIT"}
    /\ call.value.recommendation = "BUY_NOW" <=>
         CASE call.variant.id = "conservative" ->
                InputConfidenceAtLeast(85) /\ call.input.probabilityIncrease >= 80
           [] call.variant.id = "balanced" ->
                InputConfidenceAtLeast(75) /\ call.input.probabilityIncrease >= 75
           [] call.variant.id = "aggressive" ->
                InputConfidenceAtLeast(65) \/ call.input.probabilityIncrease >= 60

\* C13 witness: the aggressive variant turns WAIT into BUY_NOW on the
\* probability alone, the confidence being below its threshold.
C13_Witness ==
  /\ VariantApplied
  /\ call.variant.id = "aggressive"
  /\ ~InputConfidenceAtLeast(65)
  /\ call.input.recommendation = "WAIT"
  /\ call.value.recommendation = "BUY_NOW"

(***************************************************************************)
(* A/B test metrics and the winning variant.  Rates and interval bounds    *)
(* are kept in hundredths of a percent (Math.round(x * 10000) / 100 read   *)
(* times 100), savings in tenths of a price unit, average savings in       *)
(* hundredths.  The interval bounds are RoundedBound, defined with the     *)
(* arithmetic helpers.                                                     *)
(***************************************************************************)

\* confidenceInterval of s successes in n results
ABConfidenceInterval(s, n) ==
  [lower |-> Max(0, RateBounds(s, n).lower), upper |-> Min(10000, RateBounds(s, n).upper)]

\* the metrics of one variant over the loaded results
VariantMetrics(results, variant) ==
  LET ofVariant(r) == r.variantId = variant.id
      buyNow(r) == r.recommendation = "BUY_NOW"
      successful(r) == r.success
      withSavings(r) == ~r.savings.isNull
      followed(r) ==
        \/ r.recommendation = "BUY_NOW" /\ r.userAction = "BOUGHT"
        \/ r.recommendation = "WAIT" /\ r.userAction = "WAITED"
      averageSavings(rs) ==
        IF Len(rs) > 0 THEN MathRound(SeqSum([i \in DOMAIN rs |-> rs[i].savings.value]) * 10, Len(rs))
        ELSE 0
      measured(variantResults) ==
        IF Len(variantResults) = 0
        THEN [variantId |-> variant.id, totalRecommendations |-> 0,
              buyNowRecommendations |-> 0, waitRecommendations |-> 0,
              successRate |-> 0, averageSavings |-> 0, userFollowRate |-> 0,
              confidenceInterval |-> [lower |-> 0, upper |-> 0]]
        ELSE [variantId |-> variant.id,
              totalRecommendations |-> Len(variantResults),
              buyNowRecommendations |-> Len(SelectSeq(variantResults, buyNow)),
              waitRecommendations |->
                Len(variantResults) - Len(SelectSeq(variantResults, buyNow)),
              successRate |->
                MathRound(Len(SelectSeq(variantResults, successful)) * 10000,
                          Len(variantResults)),
              averageSavings |-> averageSavings(SelectSeq(variantResults, withSavings)),
              userFollowRate |->
                MathRound(Len(SelectSeq(variantResults, followed)) * 10000,
                          Len(variantResults)),
              confidenceInterval |->
                ABConfidenceInterval(Len(SelectSeq(variantResults, successful)),
                                     Len(variantResults))]
  IN  measured(SelectSeq(results, ofVariant))

\* ABTestingFramework.calculateTestMetrics(): one entry per variant, in the
\* order of VARIANTS
calculateTestMetrics(store, window) ==
  LET measured(results) == [k \in DOMAIN VARIANTS |-> VariantMetrics(results, VARIANTS[k])]
  IN  measured(loadTestResults(store, window))

RECURSIVE SortBySuccessRate(_)
\* metrics.sort((a, b) => b.successRate - a.successRate): descending, equal
\* rates keep their order
SortBySuccessRate(metrics) ==
  IF Len(metrics) <= 1 THEN metrics
  ELSE LET insert(sorted, m) ==
             LET before(x) == x.successRate >= m.successRate
                 after(x) == x.successRate < m.successRate
             IN  SelectSeq(sorted, before) \o << m >> \o SelectSeq(sorted, after)
       IN  insert(SortBySuccessRate(SubSeq(metrics, 1, Len(metrics) - 1)),
                  metrics[Len(metrics)])

\* VARIANTS.find(v => v.id === id) || null
FindVariant(id) ==
  IF \E k \in DOMAIN VARIANTS : VARIANTS[k].id = id
  THEN Some(VARIANTS[CHOOSE k \in DOMAIN VARIANTS :
                       /\ VARIANTS[k].id = id
                       /\ \A j \in 1..(k - 1) : VARIANTS[j].id # id])
  ELSE Null

\* Mutant: touching intervals count as significant.
getWinningVariant_Overlapping(store, window) ==
  LET decided(metrics, best, second) ==
        [metrics |-> metrics,
         significant |-> best.confidenceInterval.lower >= second.confidenceInterval.upper,
         winner |-> IF best.confidenceInterval.lower >= second.confidenceInterval.upper
                    THEN FindVariant(best.variantId) ELSE Null]
      sorted(metrics, sortedMetrics) == decided(metrics, sortedMetrics[1], sortedMetrics[2])
      measured(metrics) ==
        IF Len(metrics) < 2 THEN [metrics |-> metrics, significant |-> FALSE, winner |-> Null]
        ELSE sorted(metrics, SortBySuccessRate(metrics))
  IN  measured(calculateTestMetrics(store, window))

\* ABTestingFramework.getWinningVariant(): { winner, significant }, with the
\* metrics it was computed from
getWinningVariant(store, window) ==
  LET decided(metrics, best, second) ==
        [metrics |-> metrics,
         significant |-> best.confidenceInterval.lower > second.confidenceInterval.upper,
         winner |-> IF best.confidenceInterval.lower > second.confidenceInterval.upper
                    THEN FindVariant(best.variantId) ELSE Null]
      sorted(metrics, sortedMetrics) == decided(metrics, sortedMetrics[1], sortedMetrics[2])
      measured(metrics) ==
        IF Len(metrics) < 2 THEN [metrics |-> metrics, significant |-> FALSE, winner |-> Null]
        ELSE sorted(metrics, SortBySuccessRate(metrics))
  IN  measured(calculateTestMetrics(store, window))

\* the most results one variant has in a drawn log
MaxPerVariant == 4

\* n results of one variant, the first s of them successful
ResultsOf(v, n, s) ==
  [i \in 1..n |->
     IF i <= s
     THEN [variantId |-> v, userId |-> "u1", route |-> "LHR-JFK", recommendation |-> "WAIT",
           userAction |-> "WAITED", actualOutcome |-> "PRICE_DECREASED", success |-> TRUE,
           timestamp |-> AbNow, priceAtRecommendation |-> 500,
           priceAfter7Days |-> Some(4500), savings |-> Some(500)]
     ELSE [variantId |-> v, userId |-> "u2", route |-> "LHR-JFK", recommendation |-> "BUY_NOW",
           userAction |-> "WAITED", actualOutcome |-> "PRICE_DECREASED", success |-> FALSE,
           timestamp |-> AbNow, priceAtRecommendation |-> 500,
           priceAfter7Days |-> Some(4750), savings |-> Some(-250)]]

\* the logs drawn: per variant n results, s of them successful, the variants'
\* blocks in either order
WinnerLogs ==
  LET Counts == {c \in (0..MaxPerVariant) \X (0..MaxPerVariant) : c[2] <= c[1]}
  IN  UNION { { ResultsOf("conservative", c[1], c[2]) \o ResultsOf("balanced", b[1], b[2])
                  \o ResultsOf("aggressive", a[1], a[2]),
                ResultsOf("aggressive", a[1], a[2]) \o ResultsOf("balanced", b[1], b[2])
                  \o ResultsOf("conservative", c[1], c[2]) } :
              c \in Counts, b \in Counts, a \in Counts }

InitWinner ==
  /\ clock = AbNow
  /\ hasWindow \in BOOLEAN
  /\ \E log \in WinnerLogs :
       storage = [EmptyStorage EXCEPT !.abTests = IF log = << >> THEN Null ELSE Some(log)]
  /\ validationCache = Null
  /\ lastValidationTime = Null
  /\ call = [op |-> "none"]
  /\ AbIdle
  /\ PredIdle
  /\ AggIdle
  /\ HttpIdle

\* ABTestingFramework.getWinningVariant()
GetWinningVariant ==
  /\ call.op = "none"
  /\ LET Returned(r) ==
           call' = [op |-> "getWinningVariant", metrics |-> r.metrics,
                    winner |-> r.winner, significant |-> r.significant]
     IN  Returned(getWinningVariant(storage, hasWindow))
  /\ UNCHANGED << clock, hasWindow, storage, validationCache, lastValidationTime,
                  predVars, aggVars, abVars, httpVars >>

NextWinner == GetWinningVariant

SpecWinner == InitWinner /\ [][NextWinner]_vars

WinnerDecided == call.op = "getWinningVariant"

\* the position in VARIANTS of the variant with the highest success rate among
\* those not excluded, the first of them on a tie
HighestRate(metrics, excluded) ==
  CHOOSE k \in DOMAIN metrics \ excluded :
    /\ \A j \in DOMAIN metrics \ excluded : metrics[j].successRate <= metrics[k].successRate
    /\ \A j \in DOMAIN metrics \ excluded :
         metrics[j].successRate = metrics[k].successRate => k <= j

BestMetrics == call.metrics[HighestRate(call.metrics, {})]
SecondMetrics == call.metrics[HighestRate(call.metrics, {HighestRate(call.metrics, {})})]

\* C15, as stated: the winner is the variant with the highest success rate;
\* the result is significant only if that variant's interval lower bound is
\* strictly greater than the interval upper bound of the variant with the
\* second-highest success rate; an empty log gives no significance.
C15_WinnerIsHighestRate ==
  WinnerDecided =>
    /\ call.winner = FindVariant(BestMetrics.variantId)
    /\ call.significant =>
         BestMetrics.confidenceInterval.lower > SecondMetrics.confidenceInterval.upper
    /\ loadTestResults(storage, hasWindow) = << >> => ~call.significant

\* C15, amended: the result is significant exactly when the interval lower
\* bound of the variant with the highest success rate is strictly greater than
\* the interval upper bound of the variant with the second-highest success
\* rate; the winner is the variant with the highest success rate when the
\* result is significant and there is no winner otherwise; an empty log gives
\* no significance and no winner.
C15_WinnerOnlyWhenSignificant ==
  WinnerDecided =>
    /\ call.significant <=>
         BestMetrics.confidenceInterval.lower > SecondMetrics.confidenceInterval.upper
    /\ call.winner = IF call.significant THEN FindVariant(BestMetrics.variantId) ELSE Null
    /\ loadTestResults(storage, hasWindow) = << >> =>
         ~call.significant /\ call.winner = Null

\* C15 witness: two variants with results and success rates of 100% and 75%,
\* whose intervals touch at 100%: not significant, no winner.
C15_Witness ==
  /\ WinnerDecided
  /\ BestMetrics.successRate = 10000
  /\ SecondMetrics.successRate = 7500
  /\ SecondMetrics.confidenceInterval.upper = 10000
  /\ ~call.significant
  /\ call.winner = Null

(***************************************************************************)
(* The validated-search endpoint.  There are two versions of the POST      *)
(* handler: app/api/validated-search/route.ts, which asks Aviasales        *)
(* (getCheapestPrice), Skyscanner and Amadeus, and the version with the    *)
(* 10-minute price cache, which asks Aviasales twice (getExactPriceForDates,*)
(* getExactOrRangePrice), then Skyscanner, then Amadeus.  A provider call  *)
(* answers [threw, flights] or [threw, value]; what the network gave the   *)
(* provider is an input of the call.  The endpoint runs on the server:     *)
(* there is no window.  Time is in minutes.                                *)
(***************************************************************************)

Threw == [threw |-> TRUE, value |-> Null]
Returns(v) == [threw |-> FALSE, value |-> v]

\* departure dates for which new Date(departure_date) is an Invalid Date
InvalidDates == {"soon"}

\* generateBookingUrl(params) throws a RangeError: for a one-way search it
\* calls toISOString() on a date built from departure_date
generateBookingUrlThrows(params) ==
  params.departure_date \in InvalidDates /\ params.return_date.isNull

\* AviasalesService.calculateBasePrice(origin, destination)
aviasalesBasePrice(origin, destination) ==
  IF << origin, destination >> \in {<< "LHR", "JFK" >>, << "JFK", "LHR" >>} THEN 434 ELSE 200

\* AviasalesService.generateMockAviasalesData(params): 5 offers, the first 3
\* direct, sorted by price; each offer takes a booking URL
generateMockAviasalesData(params) ==
  LET priced(basePrice) ==
        [i \in 1..5 |->
           [amount |-> MathRound(basePrice * << 100, 105, 112, 118, 125 >>[i], 100),
            transfers |-> IF i > 3 THEN 1 ELSE 0]]
  IN  IF generateBookingUrlThrows(params) THEN Threw
      ELSE Returns(priced(aviasalesBasePrice(params.origin, params.destination)))

\* what the Travel Payouts API gives a search: no API key configured, a failed
\* or empty answer, offers with stops, or entries without a price
AviasalesNetwork == {"nokey", "down", "data", "unpriced"}
AviasalesData == << [amount |-> 295, transfers |-> 1], [amount |-> 310, transfers |-> 1] >>

\* AviasalesService.searchFlights(params) of lib/aviasales.ts: the month matrix,
\* mock data when there is no key or the try block throws
aviasalesSearchFlights(params, network) ==
  IF network = "nokey" THEN generateMockAviasalesData(params)
  ELSE IF network = "data" /\ ~generateBookingUrlThrows(params) THEN Returns(AviasalesData)
  ELSE IF network = "unpriced" THEN Returns(<< >>)
  ELSE generateMockAviasalesData(params)

\* Math.min(...flights.map(f => f.price.amount)) of a non-empty list
MinAmount(flights) ==
  CHOOSE a \in {flights[i].amount : i \in DOMAIN flights} :
    \A i \in DOMAIN flights : a <= flights[i].amount

\* AviasalesService.getCheapestPrice(params) of lib/aviasales.ts
getCheapestPrice(params, network) ==
  LET cheapest(flights) ==
        IF flights.threw THEN Threw
        ELSE IF Len(flights.value) > 0 THEN Returns(Some(MinAmount(flights.value)))
        ELSE Returns(Null)
  IN  cheapest(aviasalesSearchFlights(params, network))

\* AviasalesService.searchFlights(params) of the Flight Data version: offers
\* from the API, mock data when there is no key, no offer or an exception
flightDataSearchFlights(params, network) ==
  IF network = "data" /\ ~generateBookingUrlThrows(params) THEN Returns(AviasalesData)
  ELSE generateMockAviasalesData(params)

\* AviasalesService.getExactPriceForDates(params): null without a key, when
\* nothing is left after the direct-only filter, and on any exception
getExactPriceForDates(params, network) ==
  LET direct(f) == f.transfers = 0
      best(filteredFlights) ==
        IF Len(filteredFlights) = 0 THEN Returns(Null)
        ELSE Returns(Some([price |-> MinAmount(filteredFlights), isExact |-> FALSE]))
      found(flights) ==
        IF flights.threw \/ Len(flights.value) = 0 THEN Returns(Null)
        ELSE best(IF params.directOnly THEN SelectSeq(flights.value, direct) ELSE flights.value)
  IN  IF network = "nokey" THEN Returns(Null)
      ELSE found(flightDataSearchFlights(params, network))

\* AviasalesService.getExactOrRangePrice(params)
getExactOrRangePrice(params, network) ==
  LET found(flights) ==
        IF flights.threw \/ Len(flights.value) = 0 THEN Returns(Null)
        ELSE Returns(Some([best |-> MinAmount(flights.value), isExact |-> FALSE,
                            basis |-> "month"]))
  IN  IF network = "nokey" THEN Returns(Null)
      ELSE found(flightDataSearchFlights(params, network))

\* SkyscannerService.calculateBasePrice(origin, destination)
skyscannerBasePrice(origin, destination) ==
  IF << origin, destination >> \in {<< "LHR", "JFK" >>, << "JFK", "LHR" >>} THEN 450 ELSE 220

\* what the Skyscanner API gives a search: mock data is used without a key and
\* on any failure; an answer without itineraries parses to no offer
SkyscannerNetwork == {"mock", "data", "empty"}

\* SkyscannerService.searchFlights(params): the amounts of the offers; it
\* never throws
skyscannerSearchFlights(params, network) ==
  IF network = "data" THEN Returns(<< 420, 480 >>)
  ELSE IF network = "empty" THEN Returns(<< >>)
  ELSE Returns([i \in 1..10 |->
                   MathRound(skyscannerBasePrice(params.originSkyId, params.destinationSkyId)
                               * << 100, 108, 115, 122, 130, 138, 145, 152, 160, 170 >>[i],
                             100)])

AmadeusNetwork == {"data", "empty", "error"}

\* AmadeusService.searchFlights(params): price.total of the offers, parsed;
\* an API error is thrown again
amadeusSearchFlights(params, network) ==
  IF network = "error" THEN Threw
  ELSE IF network = "empty" THEN Returns(<< >>)
  ELSE Returns(<< 500, 520 >>)

Outcome(r, hasPrice) == IF r.threw THEN "threw" ELSE IF hasPrice THEN "price" ELSE "nodata"
Tried(provider, outcome) == [provider |-> provider, outcome |-> outcome]
DEFAULT_PRICE == 400
\* the catch block of the price lookup
Caught(tried) == [tried |-> tried, currentPrice |-> DEFAULT_PRICE, source |-> "default"]
Found(tried, price, source) == [tried |-> tried, currentPrice |-> price, source |-> source]

\* the last two steps of both lookups: Skyscanner, then Amadeus
SkyscannerThenAmadeus(request, before, sky, ama) ==
  LET amadeus(tried, flightOffers) ==
        IF flightOffers.threw
        THEN Caught(Append(tried, Tried("amadeus", "threw")))
        ELSE IF Len(flightOffers.value) > 0
        THEN Found(Append(tried, Tried("amadeus", "price")), flightOffers.value[1], "amadeus")
        ELSE Found(Append(tried, Tried("amadeus", "nodata")), DEFAULT_PRICE, "default")
      skyscanner(skyscannerOffers) ==
        IF skyscannerOffers.threw
        THEN Caught(Append(before, Tried("skyscanner", "threw")))
        ELSE IF Len(skyscannerOffers.value) > 0
        THEN Found(Append(before, Tried("skyscanner", "price")),
                   skyscannerOffers.value[1], "skyscanner")
        ELSE amadeus(Append(before, Tried("skyscanner", "nodata")),
                     amadeusSearchFlights(request, ama))
  IN  skyscanner(skyscannerSearchFlights(
        [originSkyId |-> request.origin, destinationSkyId |-> request.destination], sky))

aviasalesParams(request) ==
  [origin |-> request.origin, destination |-> request.destination,
   departure_date |-> request.departureDate, return_date |-> request.returnDate,
   directOnly |-> request.directFlightsOnly]

\* the price lookup of route.ts: one try block around the three providers
LookupPrice(request, avi, sky, ama) ==
  LET aviasales(aviasalesPrice) ==
        IF aviasalesPrice.threw THEN Caught(<< Tried("aviasales", "threw") >>)
        ELSE IF ~aviasalesPrice.value.isNull /\ aviasalesPrice.value.value > 0
        THEN Found(<< Tried("aviasales", "price") >>, aviasalesPrice.value.value, "aviasales")
        ELSE SkyscannerThenAmadeus(request, << Tried("aviasales", "nodata") >>, sky, ama)
  IN  aviasales(getCheapestPrice(aviasalesParams(request), avi))

\* the price lookup of the cached version: one try block around the four
\* provider calls; the two Aviasales calls see the network one after the other
LookupPriceFlightData(request, avi1, avi2, sky, ama) ==
  LET month(tried, exactOrRange) ==
        IF exactOrRange.threw
        THEN Caught(Append(tried, Tried("aviasales-month", "threw")))
        ELSE IF ~exactOrRange.value.isNull /\ exactOrRange.value.value.best > 0
        THEN Found(Append(tried, Tried("aviasales-month", "price")),
                   exactOrRange.value.value.best, "aviasales-month")
        ELSE SkyscannerThenAmadeus(request, Append(tried, Tried("aviasales-month", "nodata")),
                                   sky, ama)
      exact(cheap) ==
        IF cheap.threw THEN Caught(<< Tried("aviasales-exact", "threw") >>)
        ELSE IF ~cheap.value.isNull /\ cheap.value.value.price > 0
        THEN Found(<< Tried("aviasales-exact", "price") >>, cheap.value.value.price,
                   "aviasales-exact")
        ELSE month(<< Tried("aviasales-exact", "nodata") >>,
                   getExactOrRangePrice(aviasalesParams(request), avi2))
  IN  exact(getExactPriceForDates(aviasalesParams(request), avi1))

\* the requests drawn: a body that is not JSON, a missing field, a one-way
\* search, the same direct only, and searches whose departure date is no date
Malformed == [malformed |-> TRUE]
SearchRequest(origin, departureDate, returnDate, directFlightsOnly) ==
  [malformed |-> FALSE, origin |-> origin, destination |-> "JFK",
   departureDate |-> departureDate, returnDate |-> returnDate,
   directFlightsOnly |-> directFlightsOnly]
Requests ==
  { Malformed,
    SearchRequest("", "2025-08-01", Null, FALSE),
    SearchRequest("LHR", "2025-08-01", Null, FALSE),
    SearchRequest("LHR", "2025-08-01", Null, TRUE),
    SearchRequest("LHR", "soon", Null, FALSE),
    SearchRequest("LHR", "soon", Some("2025-08-08"), FALSE) }

\* !origin || !destination || !departureDate
MissingFields(request) ==
  request.origin = "" \/ request.destination = "" \/ request.departureDate = ""

ErrorResponse(status) ==
  [status |-> status, currentPrice |-> Null, recommendation |-> Null, cache |-> "none"]
\* NextResponse.json({ success: true, validatedPrediction, metadata })
SearchResponse(currentPrice, recommendation, cache) ==
  [status |-> 200, currentPrice |-> Some(currentPrice),
   recommendation |-> Some(recommendation), cache |-> cache]

\* the requests served in one run, and the ticks of half the cache's time to live
MaxRequests == 2
MaxHttpTicks == 2
\* CACHE_TTL_MS, in minutes
CACHE_TTL_MINUTES == 10

\* POST of route.ts: the exchange, with the providers tried
validatedSearch(request, avi, sky, ama, recommendation) ==
  LET answered(lookup) ==
        [handler |-> "route", request |-> request, tried |-> lookup.tried,
         source |-> lookup.source,
         response |-> SearchResponse(lookup.currentPrice, recommendation, "none")]
      refused(status) ==
        [handler |-> "route", request |-> request, tried |-> << >>, source |-> "none",
         response |-> ErrorResponse(status)]
  IN  IF request.malformed THEN refused(500)
      ELSE IF MissingFields(request) THEN refused(400)
      ELSE answered(LookupPrice(request, avi, sky, ama))

\* currentPrice <= Math.max(150, Math.round(currentPrice * 0.92)) ? 'BUY_NOW' : 'WAIT'
DeterministicRecommendation(currentPrice) ==
  IF currentPrice <= Max(150, MathRound(currentPrice * 92, 100)) THEN "BUY_NOW" ELSE "WAIT"

\* POST of the cached version: the exchange and the cache it leaves
validatedSearchCached(cache, now, request, avi1, avi2, sky, ama) ==
  LET exchange(tried, source, response) ==
        [handler |-> "cached", request |-> request, tried |-> tried, source |-> source,
         response |-> response]
      hit(cached) ==
        [cache |-> cache,
         exchange |-> exchange(<< >>, "cache",
                               SearchResponse(cached.price,
                                              DeterministicRecommendation(cached.price), "HIT"))]
      miss(lookup) ==
        [cache |-> [k \in DOMAIN cache \cup {request} |->
                      IF k = request THEN [price |-> lookup.currentPrice, timestamp |-> now]
                      ELSE cache[k]],
         exchange |-> exchange(lookup.tried, lookup.source,
                               SearchResponse(lookup.currentPrice,
                                              DeterministicRecommendation(lookup.currentPrice),
                                              "MISS"))]
      refused(status) ==
        [cache |-> cache, exchange |-> exchange(<< >>, "none", ErrorResponse(status))]
  IN  IF request.malformed THEN refused(500)
      ELSE IF MissingFields(request) THEN refused(400)
      ELSE IF request \in DOMAIN cache /\ now - cache[request].timestamp < CACHE_TTL_MINUTES
      THEN hit(cache[request])
      ELSE miss(LookupPriceFlightData(request, avi1, avi2, sky, ama))

InitHttp ==
  /\ http = [pc |-> "ready", now |-> 0, served |-> 0, cache |-> << >>]
  /\ ValIdle
  /\ AbIdle
  /\ PredIdle
  /\ AggIdle

\* the trackUserAction call both handlers end with, for a request that got
\* past the validation
Tracked(exchange) ==
  IF exchange.response.status = 200
  THEN trackUserAction(storage, hasWindow, http.now, "user_default", "LHR-JFK",
                       exchange.response.recommendation.value, "NO_ACTION",
                       exchange.response.currentPrice.value).storage
  ELSE storage

\* POST /api/validated-search, route.ts
ValidatedSearch ==
  /\ http.pc \in {"ready", "responded"}
  /\ http.served < MaxRequests
  /\ \E request \in Requests, avi \in AviasalesNetwork, sky \in SkyscannerNetwork,
        ama \in AmadeusNetwork, recommendation \in Recommendations :
       LET Responded(exchange) ==
             /\ http' = [pc |-> "responded", now |-> http.now, served |-> http.served + 1,
                         cache |-> http.cache, exchange |-> exchange]
             /\ storage' = Tracked(exchange)
       IN  Responded(validatedSearch(request, avi, sky, ama, recommendation))
  /\ UNCHANGED << clock, hasWindow, validationCache, lastValidationTime, call,
                  predVars, aggVars, abVars >>

\* POST /api/validated-search, the version with the price cache
ValidatedSearchCached ==
  /\ http.pc \in {"ready", "responded"}
  /\ http.served < MaxRequests
  /\ \E request \in Requests, avi1 \in AviasalesNetwork \ {"unpriced"},
        avi2 \in AviasalesNetwork \ {"unpriced"}, sky \in SkyscannerNetwork,
        ama \in AmadeusNetwork :
       /\ (avi1 = "nokey") = (avi2 = "nokey")
       /\ LET Responded(r) ==
                /\ http' = [pc |-> "responded", now |-> http.now, served |-> http.served + 1,
                            cache |-> r.cache, exchange |-> r.exchange]
                /\ storage' = Tracked(r.exchange)
          IN  Responded(validatedSearchCached(http.cache, http.now, request,
                                              avi1, avi2, sky, ama))
  /\ UNCHANGED << clock, hasWindow, validationCache, lastValidationTime, call,
                  predVars, aggVars, abVars >>

\* Time passes.
HttpTick ==
  /\ http.pc \in {"ready", "responded"}
  /\ http.now < MaxHttpTicks * (CACHE_TTL_MINUTES \div 2)
  /\ http' = [http EXCEPT !.now = @ + CACHE_TTL_MINUTES \div 2]
  /\ UNCHANGED << predVars, aggVars, valVars, abVars >>

NextHttp ==
  \/ ValidatedSearch
  \/ ValidatedSearchCached
  \/ HttpTick

SpecHttp == InitHttp /\ [][NextHttp]_vars

\* the fixed order of the providers of a handler
ProviderOrder(handler) ==
  IF handler = "route" THEN << "aviasales", "skyscanner", "amadeus" >>
  ELSE << "aviasales-exact", "aviasales-month", "skyscanner", "amadeus" >>

\* a request that got as far as the price lookup
LookedUp ==
  /\ http.pc = "responded"
  /\ ~http.exchange.request.malformed
  /\ ~MissingFields(http.exchange.request)
  /\ http.exchange.source # "cache"

\* C16: the providers are tried in one fixed order; whenever a provider
\* fails, by throwing or by returning no data, the next provider in that
\* order is tried; no provider exception reaches the HTTP caller; the
\* default price 400 is used only when every provider has failed.
C16_FallbackOrder ==
  LookedUp =>
    LET tried == http.exchange.tried
        order == ProviderOrder(http.exchange.handler)
    IN  /\ Len(tried) \in 1..Len(order)
        /\ \A i \in DOMAIN tried : tried[i].provider = order[i]
        /\ \A i \in DOMAIN tried :
             tried[i].outcome # "price" /\ i < Len(order) => Len(tried) > i
        /\ http.exchange.response.status = 200
        /\ http.exchange.source = "default" =>
             /\ Len(tried) = Len(order)
             /\ \A i \in DOMAIN tried : tried[i].outcome # "price"
             /\ http.exchange.response.currentPrice = Some(DEFAULT_PRICE)

====
